---- MODULE Spec2Model ----
(***************************************************************************)
(* A model of diff-shades: the per-file checker and the worker pool of     *)
(* analyze_projects, the result model and its rollup, the persistence and  *)
(* cache layer (save_analysis / load_analysis / clear_cache) and the       *)
(* compare command.                                                        *)
(*                                                                         *)
(* Python values are modelled structurally:                                *)
(*   - a str that is file content is a sequence of characters;             *)
(*   - a dict is a sequence of [key, value] records in insertion order     *)
(*     (Python dicts keep insertion order; == on dicts ignores it);        *)
(*   - a dataclass instance is a record of its fields;                     *)
(*   - None is the string "None".                                          *)
(***************************************************************************)
EXTENDS Integers, Sequences, FiniteSets, TLC

(***************************************************************************)
(* Bounds of the model.                                                    *)
(***************************************************************************)
\* files a project may hold (paths are ranked 1..MaxFiles in sorted order)
MaxFiles == 2
\* worker processes of the multiprocessing.Pool
PoolSize == 2

VARIABLES
    \* ---- analyze_projects ----
    apc,            \* "setup" | "loop" | "imap" | "done" | "saved" | "summarized" |
                    \* "crashed" | "off"
    selected_projects, \* the projects handed to setup_projects, in order
    work_dir,       \* name -> "absent", or the HEAD commit of the checkout there
    setup_log,      \* history: what setup_projects did for each project
    prepared,       \* the projects setup_projects returned so far, in order
    results_file,   \* results_path: absent, an older file, or the Analysis written
    files_and_modes,\* per project: the sorted file list of get_project_files_and_mode
    proj_idx,       \* position of the zip(projects, files_and_modes) loop
    data_packets,   \* the packets given to pool.imap for the current project
    next_task,      \* index of the next packet a worker will take
    running,        \* indices of the packets being checked by workers
    outbox,         \* finished packets: index -> what check_file_shim returned
    next_yield,     \* number of results pool.imap has yielded, plus one
    file_results,   \* the dict check_project_files is filling
    results,        \* analyze_projects' results dict: name -> file_results
    overall,        \* name -> the overall result analyze_projects logged
    rollup,         \* name -> ProjectResults.overall_result read by the summary
    aerror,         \* the exception that ended the run, or None
    outcomes,       \* history: index -> what the formatter did for a packet in outbox
    out_of_order    \* history: some packet finished before an earlier one

avars == << apc, selected_projects, work_dir, setup_log, results_file, prepared,
            files_and_modes, proj_idx, data_packets, next_task,
            running, outbox, next_yield, file_results, results, overall, rollup, aerror,
            outcomes, out_of_order >>

VARIABLES
    \* ---- save_analysis / load_analysis ----
    fs,             \* the file system: resolved path -> file
    cache,          \* CACHE_DIR: the set of its entries
    now,            \* time.time(), in seconds
    version,        \* diff_shades.__version__
    analysis,       \* the Analysis the caller holds and may save
    last,           \* what the last load_analysis call returned or raised
    writes          \* number of save_analysis calls so far

pvars == << fs, cache, now, version, analysis, last, writes >>

VARIABLES
    \* ---- the compare command ----
    cpc,            \* "off" | "load1" | "load2" | "select" | "summary" | "report" | "done"
    cargs,          \* the command line: check, format, project_key
    analysis_one,   \* compare's first analysis
    analysis_two,   \* compare's second analysis
    names,          \* sorted(names), the list the selection loop walks
    name_idx,       \* position of that loop
    shared_projects,\* the (proj, results, results2) triples collected
    console,        \* what has been logged and printed, in order
    cexit,          \* the exit status, -1 while running
    cerror          \* the exception that ended the command, None if none

cvars == << cpc, cargs, analysis_one, analysis_two, names, name_idx, shared_projects,
            console, cexit, cerror >>

VARIABLES
    \* ---- functions called on their own ----
    call_args,      \* the function and the arguments it is given
    call_out        \* what the calls made so far returned or raised

VARIABLES
    \* ---- two processes in load_analysis on one CACHE_DIR ----
    cache_dir,      \* entry name -> is it there, is its pickle complete, who writes it
    procs           \* process -> where it is in load_analysis, and how it ended

\* what each area leaves alone
not_analyze == << pvars, cvars, call_args, call_out, cache_dir, procs >>
not_persist == << avars, cvars, call_args, call_out, cache_dir, procs >>

vars == << avars, pvars, cvars, call_args, call_out, cache_dir, procs >>

None == "None"

(***************************************************************************)
(* Python dict, insertion ordered.                                         *)
(***************************************************************************)
EmptyDict == << >>

DictKeys(d) == [i \in 1..Len(d) |-> d[i].key]

DictKeySet(d) == {d[i].key : i \in 1..Len(d)}

DictHas(d, k) == \E i \in 1..Len(d) : d[i].key = k

DictGet(d, k) == d[CHOOSE i \in 1..Len(d) : d[i].key = k].value

\* d[k] = v : an existing key keeps its position, a new key is appended
DictSet(d, k, v) ==
    IF DictHas(d, k)
    THEN [i \in 1..Len(d) |-> IF d[i].key = k THEN [key |-> k, value |-> v] ELSE d[i]]
    ELSE Append(d, [key |-> k, value |-> v])

DictValues(d) == [i \in 1..Len(d) |-> d[i].value]

\* dict.__eq__ : same keys, same value under each key, whatever the order
DictEq(d1, d2) ==
    /\ DictKeySet(d1) = DictKeySet(d2)
    /\ \A k \in DictKeySet(d1) : DictGet(d1, k) = DictGet(d2, k)

(***************************************************************************)
(* File contents.                                                          *)
(***************************************************************************)
NL == "\n"

\* what Path.read_text returns for a file: every file of the model has its
\* own content (its first line names it)
ReadText(path) == << path.root, path.rel, NL, "x" >>

(***************************************************************************)
(* utils.py : unified_diff and calculate_line_changes                      *)
(*                                                                         *)
(* A text is a sequence of characters; "\n" is the only line boundary of   *)
(* the model's alphabet.  difflib's SequenceMatcher runs without junk      *)
(* (isjunk is None and the autojunk heuristic needs 200 lines).            *)
(***************************************************************************)
RECURSIVE splitlines_keepends(_)
\* str.splitlines(keepends=True)
splitlines_keepends(t) ==
    IF t = << >> THEN << >>
    ELSE LET k == IF \E i \in 1..Len(t) : t[i] = NL
                  THEN CHOOSE i \in 1..Len(t) : t[i] = NL /\ \A j \in 1..(i-1) : t[j] # NL
                  ELSE Len(t)
         IN << SubSeq(t, 1, k) >> \o splitlines_keepends(SubSeq(t, k + 1, Len(t)))

\* str.splitlines(): the lines without their line ends
splitlines(t) ==
    LET ls == splitlines_keepends(t)
    IN [i \in 1..Len(ls) |->
          IF ls[i][Len(ls[i])] = NL THEN SubSeq(ls[i], 1, Len(ls[i]) - 1) ELSE ls[i]]

RECURSIVE join(_)
\* "".join(lines)
join(ls) == IF ls = << >> THEN << >> ELSE Head(ls) \o join(Tail(ls))

\* SequenceMatcher.find_longest_match over a[alo+1..ahi], b[blo+1..bhi]
\* (0-based half-open bounds as in difflib): the longest common block, the
\* earliest in a among the longest, the earliest in b among those.
find_longest_match(a, b, alo, ahi, blo, bhi) ==
    LET IsBlock(i, j, k) ==
            /\ i + k <= ahi
            /\ j + k <= bhi
            /\ \A d \in 1..k : a[i + d] = b[j + d]
        Blocks == { <<i, j, k>> \in (alo..ahi) \X (blo..bhi) \X (1..(ahi - alo)) :
                      IsBlock(i, j, k) }
        Better(x, y) ==
            \/ x[3] > y[3]
            \/ x[3] = y[3] /\ x[1] < y[1]
            \/ x[3] = y[3] /\ x[1] = y[1] /\ x[2] < y[2]
    IN IF Blocks = {} THEN <<alo, blo, 0>>
       ELSE CHOOSE x \in Blocks : \A y \in Blocks \ {x} : Better(x, y)

RECURSIVE matching_blocks(_, _, _, _, _, _)
\* the recursion of SequenceMatcher.get_matching_blocks, blocks in order
matching_blocks(a, b, alo, ahi, blo, bhi) ==
    LET m == find_longest_match(a, b, alo, ahi, blo, bhi)
        i == m[1]
        j == m[2]
        k == m[3]
    IN IF k = 0 THEN << >>
       ELSE (IF alo < i /\ blo < j THEN matching_blocks(a, b, alo, i, blo, j) ELSE << >>)
            \o << m >>
            \o (IF i + k < ahi /\ j + k < bhi
                THEN matching_blocks(a, b, i + k, ahi, j + k, bhi) ELSE << >>)

RECURSIVE merge_blocks(_, _)
\* get_matching_blocks collapses adjacent blocks; cur is the block being grown
merge_blocks(blocks, cur) ==
    IF blocks = << >> THEN (IF cur[3] > 0 THEN << cur >> ELSE << >>)
    ELSE LET nb == Head(blocks) IN
         IF cur[1] + cur[3] = nb[1] /\ cur[2] + cur[3] = nb[2]
         THEN merge_blocks(Tail(blocks), << cur[1], cur[2], cur[3] + nb[3] >>)
         ELSE (IF cur[3] > 0 THEN << cur >> ELSE << >>) \o merge_blocks(Tail(blocks), nb)

get_matching_blocks(a, b) ==
    merge_blocks(matching_blocks(a, b, 0, Len(a), 0, Len(b)), <<0, 0, 0>>)
      \o << << Len(a), Len(b), 0 >> >>

RECURSIVE opcodes_from(_, _, _)
\* SequenceMatcher.get_opcodes: [tag, i1, i2, j1, j2] from the matching blocks
opcodes_from(blocks, i, j) ==
    IF blocks = << >> THEN << >>
    ELSE LET ai == Head(blocks)[1]
             bj == Head(blocks)[2]
             size == Head(blocks)[3]
             tag == IF i < ai /\ j < bj THEN "replace"
                    ELSE IF i < ai THEN "delete"
                    ELSE IF j < bj THEN "insert"
                    ELSE ""
         IN (IF tag # "" THEN << [tag |-> tag, i1 |-> i, i2 |-> ai, j1 |-> j, j2 |-> bj] >>
             ELSE << >>)
            \o (IF size > 0
                THEN << [tag |-> "equal", i1 |-> ai, i2 |-> ai + size,
                         j1 |-> bj, j2 |-> bj + size] >>
                ELSE << >>)
            \o opcodes_from(Tail(blocks), ai + size, bj + size)

get_opcodes(a, b) == opcodes_from(get_matching_blocks(a, b), 0, 0)

\* the context lines unified_diff asks for
DIFF_CONTEXT == 5

get_grouped_opcodes_keeps_equal(a, b) ==
    LET codes == get_opcodes(a, b) IN
    IF codes = << >> THEN << >> ELSE << codes >>

\* get_grouped_opcodes(n): texts of the model have at most n lines, so the
\* opcodes form one group and no equal run is trimmed; a group made of one
\* "equal" opcode (or of none) is not yielded.
get_grouped_opcodes(a, b) ==
    LET codes == get_opcodes(a, b) IN
    IF codes = << >> \/ (Len(codes) = 1 /\ codes[1].tag = "equal") THEN << >>
    ELSE << codes >>

RECURSIVE group_lines(_, _, _)
\* the body of one hunk
group_lines(group, a, b) ==
    IF group = << >> THEN << >>
    ELSE LET prefix_lines(p, ls) == [i \in 1..Len(ls) |-> << p >> \o ls[i]]
             op == Head(group)
             al == SubSeq(a, op.i1 + 1, op.i2)
             bl == SubSeq(b, op.j1 + 1, op.j2)
         IN (IF op.tag = "equal" THEN prefix_lines(" ", al)
             ELSE (IF op.tag \in {"replace", "delete"} THEN prefix_lines("-", al) ELSE << >>)
                  \o (IF op.tag \in {"replace", "insert"} THEN prefix_lines("+", bl)
                      ELSE << >>))
            \o group_lines(Tail(group), a, b)

\* difflib.unified_diff(a_lines, b_lines, fromfile, tofile, n=5)
difflib_unified_diff(a_lines, b_lines, fromfile, tofile) ==
    LET groups == get_grouped_opcodes(a_lines, b_lines) IN
    IF groups = << >> THEN << >>
    ELSE << << "-", "-", "-", " ", fromfile, NL >>,
            << "+", "+", "+", " ", tofile, NL >>,
            << "@", "@", " ", "hunk", " ", "@", "@", NL >> >>
         \o group_lines(groups[1], a_lines, b_lines)

RECURSIVE terminate_lines(_)
\* utils.unified_diff's loop: a line without a newline gets one and the
\* "\ No newline at end of file" marker after it
terminate_lines(ls) ==
    IF ls = << >> THEN << >>
    ELSE LET line == Head(ls) IN
         (IF line[Len(line)] = NL THEN << line >>
          ELSE << line \o << NL >>, << "\\", " ", "No newline at end of file", NL >> >>)
         \o terminate_lines(Tail(ls))

unified_diff_unterminated(a, b, a_name, b_name) ==
    join(difflib_unified_diff(splitlines_keepends(a), splitlines_keepends(b), a_name, b_name))

unified_diff_reversed(a, b, a_name, b_name) ==
    join(terminate_lines(
        difflib_unified_diff(splitlines_keepends(b), splitlines_keepends(a), a_name, b_name)))

\* utils.unified_diff(a, b, a_name, b_name)
unified_diff(a, b, a_name, b_name) ==
    join(terminate_lines(
        difflib_unified_diff(splitlines_keepends(a), splitlines_keepends(b), a_name, b_name)))

\* utils.calculate_line_changes(diff): [additions, deletions]
calculate_line_changes(diff) ==
    LET ls == splitlines(diff)
        StartsWith3(line, c) == Len(line) >= 3 /\ line[1] = c /\ line[2] = c /\ line[3] = c
    IN
    << Cardinality({i \in 1..Len(ls) : ls[i][1] = "+" /\ ~StartsWith3(ls[i], "+")}),
       Cardinality({i \in 1..Len(ls) : ls[i][1] # "+" /\ ls[i][1] = "-"
                                        /\ ~StartsWith3(ls[i], "-")}) >>

(***************************************************************************)
(* analysis.py : file results, check_file, get_overall_result              *)
(***************************************************************************)
ResultTypes == {"nothing-changed", "reformatted", "failed"}

AnalysisNothingChangedResult(src) == [type |-> "nothing-changed", src |-> src]

AnalysisReformattedResult(src, dst) == [type |-> "reformatted", src |-> src, dst |-> dst]

AnalysisFailedResult(src, error, message) ==
    [type |-> "failed", src |-> src, error |-> error, message |-> message]

\* What black.format_file_contents may do with one file: raise
\* black.NothingChanged, return new content, or raise another Exception.
FormatterOutcomes ==
    { [kind |-> "NothingChanged"] }
    \cup { [kind |-> "return", dst |-> << "A", NL >>] }
    \cup { [kind |-> "raise", cls |-> "InvalidInput", str |-> "Cannot parse"],
           [kind |-> "raise", cls |-> "AssertionError", str |-> "INTERNAL ERROR"] }

check_file_narrow_except(path, outcome) ==
    LET src == ReadText(path) IN
    IF outcome.kind = "NothingChanged" THEN [raised |-> None, value |-> AnalysisNothingChangedResult(src)]
    ELSE IF outcome.kind = "raise" /\ outcome.cls = "AssertionError"
         THEN [raised |-> None, value |-> AnalysisFailedResult(src, outcome.cls, outcome.str)]
    ELSE IF outcome.kind = "raise" THEN [raised |-> outcome.cls, value |-> None]
    ELSE [raised |-> None, value |-> AnalysisReformattedResult(src, outcome.dst)]

\* check_file: [raised, value]; raised is the class of an exception that
\* leaves check_file, None when it returns value.
check_file(path, outcome) ==
    LET src == ReadText(path) IN
    IF outcome.kind = "NothingChanged"
    THEN [raised |-> None, value |-> AnalysisNothingChangedResult(src)]
    ELSE IF outcome.kind = "raise"
    THEN [raised |-> None, value |-> AnalysisFailedResult(src, outcome.cls, outcome.str)]
    ELSE [raised |-> None, value |-> AnalysisReformattedResult(src, outcome.dst)]

\* Path.relative_to(project_path).as_posix()
relative_to(file, project_path) ==
    IF file.root = project_path THEN file.rel ELSE "ValueError"

check_file_shim(arguments, outcome) ==
    LET r == check_file(arguments.file, outcome) IN
    IF r.raised # None THEN [raised |-> r.raised, value |-> None]
    ELSE [raised |-> None,
          value |-> [filepath |-> relative_to(arguments.file, arguments.project_path),
                     result |-> r.value]]

TypesOf(rs) == {rs[i].type : i \in 1..Len(rs)}

get_overall_result_reformatted_first(rs) ==
    LET result_types == TypesOf(rs) IN
    IF "reformatted" \in result_types THEN "reformatted"
    ELSE IF "failed" \in result_types THEN "failed"
    ELSE IF result_types = {"nothing-changed"} THEN "nothing-changed"
    ELSE "AssertionError"

\* results.py get_overall_result, on the list of a mapping's values
get_overall_result(rs) ==
    LET result_types == TypesOf(rs) IN
    IF "failed" \in result_types THEN "failed"
    ELSE IF "reformatted" \in result_types THEN "reformatted"
    ELSE IF result_types = {"nothing-changed"} THEN "nothing-changed"
    ELSE "AssertionError"

analysis_get_overall_result_unasserted(rs) ==
    IF \E i \in 1..Len(rs) : rs[i].type = "failed" THEN "failed"
    ELSE IF \E i \in 1..Len(rs) : rs[i].type = "reformatted" THEN "reformatted"
    ELSE "nothing-changed"

\* analysis.py get_overall_result: its assert is on a list, which is falsy
\* only when empty
analysis_get_overall_result(rs) ==
    LET results_by_type == [i \in 1..Len(rs) |-> rs[i].type] IN
    IF \E i \in 1..Len(rs) : results_by_type[i] = "failed" THEN "failed"
    ELSE IF \E i \in 1..Len(rs) : results_by_type[i] = "reformatted" THEN "reformatted"
    ELSE IF Len(rs) # 0 THEN "nothing-changed"
    ELSE "AssertionError"

(***************************************************************************)
(* results.py : the file results                                           *)
(*                                                                         *)
(* Python values whose type matters carry it in the field `py`.            *)
(* Numbers that may be floats are kept in tenths (11 is 1.1).              *)
(***************************************************************************)
PyStr(x) == [py |-> "str", s |-> x]
PyNum(tenths) == [py |-> "number", n |-> tenths]
PyNone == [py |-> "NoneType"]
PyList(items) == [py |-> "list", items |-> items]
PyTuple(items) == [py |-> "tuple", items |-> items]

\* the sentinel defaults of the dataclasses
UNSET_COUNT == -1
UNSET_CHANGES == PyTuple(<< -1, -1 >>)

\* _convert_line_count
_convert_line_count(src, line_count) ==
    LET count == Cardinality({i \in 1..Len(src) : src[i] = NL}) IN
    IF line_count = UNSET_COUNT
    THEN (IF count > 1 THEN count ELSE 1)
    ELSE line_count

\* NothingChangedResult(src, line_count=-1)
NothingChangedResult(src, line_count) ==
    [type |-> "nothing-changed", src |-> src,
     line_count |-> _convert_line_count(src, line_count)]

\* ReformattedResult.diff(filepath)
ReformattedDiff(src, dst, filepath) ==
    unified_diff(src, dst, << "a/", filepath >>, << "b/", filepath >>)

\* ReformattedResult(src, dst, line_count=-1, line_changes=(-1, -1))
ReformattedResult(src, dst, line_count, line_changes) ==
    [type |-> "reformatted", src |-> src, dst |-> dst,
     line_count |-> _convert_line_count(src, line_count),
     line_changes |-> IF line_changes = UNSET_CHANGES
                      THEN PyTuple(calculate_line_changes(
                               ReformattedDiff(src, dst, "throw-away-name")))
                      ELSE line_changes]

\* FailedResult(src, error, message, log=None, line_count=-1)
FailedResult(src, error, message, log, line_count) ==
    [type |-> "failed", src |-> src, error |-> error, message |-> message, log |-> log,
     line_count |-> _convert_line_count(src, line_count)]

\* FileResult.line_changes (a property of the two kinds that store none)
line_changes_of(r) ==
    IF r.type = "reformatted" THEN r.line_changes.items ELSE << 0, 0 >>

RECURSIVE SumSeq(_)
SumSeq(q) == IF q = << >> THEN 0 ELSE Head(q) + SumSeq(Tail(q))

\* ProjectResults.line_count
project_line_count(pr) == SumSeq([i \in 1..Len(pr) |-> pr[i].value.line_count])

\* ProjectResults.line_changes
project_line_changes(pr) ==
    << SumSeq([i \in 1..Len(pr) |-> line_changes_of(pr[i].value)[1]]),
       SumSeq([i \in 1..Len(pr) |-> line_changes_of(pr[i].value)[2]]) >>

\* config.py Project
Project(name, url, custom_arguments, python_requires, commit) ==
    [name |-> name, url |-> url, custom_arguments |-> custom_arguments,
     python_requires |-> python_requires, commit |-> commit]

\* results.py Analysis
Analysis(projects, rs, metadata) ==
    [projects |-> projects, results |-> rs, metadata |-> metadata]

\* Analysis.__eq__ (dataclass eq: the three fields, dicts compared as dicts)
AnalysisEq(x, y) ==
    /\ DictEq(x.projects, y.projects)
    /\ DictKeySet(x.results) = DictKeySet(y.results)
    /\ \A k \in DictKeySet(x.results) : DictEq(DictGet(x.results, k), DictGet(y.results, k))
    /\ DictEq(x.metadata, y.metadata)

(***************************************************************************)
(* results.py : diff_two_results and make_comparison_summary               *)
(***************************************************************************)
diff_two_results_first_failed(r1, r2, file, diff_failure) ==
    LET failure_text(r) ==
            IF r.type = "failed"
            THEN << "[" >> \o r.error \o << ":", " " >> \o r.message \o << "]", NL >>
            ELSE << "[no crash]", NL >>
        outcome_text(r) == IF r.type = "reformatted" THEN r.dst ELSE r.src
    IN
    IF r1.type = "failed"
    THEN IF ~diff_failure
         THEN [raised |-> "ValueError: Cannot diff failing file results.", diff |-> << >>]
         ELSE [raised |-> None,
               diff |-> unified_diff(failure_text(r1), failure_text(r2),
                                     << "a/", file >>, << "b/", file >>)]
    ELSE [raised |-> None,
          diff |-> unified_diff(outcome_text(r1), outcome_text(r2),
                                << "a/", file >>, << "b/", file >>)]

\* diff_two_results(r1, r2, file, diff_failure): [raised, diff]
diff_two_results(r1, r2, file, diff_failure) ==
    LET \* f"[{r.error}: {r.message}]\n" or "[no crash]\n"
        failure_text(r) ==
            IF r.type = "failed"
            THEN << "[" >> \o r.error \o << ":", " " >> \o r.message \o << "]", NL >>
            ELSE << "[no crash]", NL >>
        outcome_text(r) == IF r.type = "reformatted" THEN r.dst ELSE r.src
    IN
    IF "failed" \in {r1.type, r2.type}
    THEN IF ~diff_failure
         THEN [raised |-> "ValueError: Cannot diff failing file results.", diff |-> << >>]
         ELSE [raised |-> None,
               diff |-> unified_diff(failure_text(r1), failure_text(r2),
                                     << "a/", file >>, << "b/", file >>)]
    ELSE [raised |-> None,
          diff |-> unified_diff(outcome_text(r1), outcome_text(r2),
                                << "a/", file >>, << "b/", file >>)]

\* the files of results_one the loops of make_comparison_summary and
\* compare_project_pair look up in results_two, in order
LookedUp(results_one, results_two) ==
    IF DictEq(results_one, results_two) THEN << >> ELSE DictKeys(results_one)

\* results_two[file] raises KeyError for one of them
LookupFails(results_one, results_two) ==
    \E i \in 1..Len(LookedUp(results_one, results_two)) :
        ~DictHas(results_two, LookedUp(results_one, results_two)[i])

DifferingFiles_every_file(results_one, results_two) == LookedUp(results_one, results_two)

\* the files of a pair whose two results are unequal, in order
DifferingFiles(results_one, results_two) ==
    SelectSeq(LookedUp(results_one, results_two),
              LAMBDA f : DictGet(results_one, f) # DictGet(results_two, f))

\* make_comparison_summary(project_pairs): the numbers of the panel, or the
\* KeyError of results_two[file]
make_comparison_summary(project_pairs) ==
    IF \E i \in 1..Len(project_pairs) : LookupFails(project_pairs[i][1], project_pairs[i][2])
    THEN [raised |-> "KeyError", differing_projects |-> 0, differing_files |-> 0,
          additions |-> 0, deletions |-> 0, lines |-> 0, files |-> 0, projects |-> 0]
    ELSE
    LET \* the line changes added up for one differing file
        FileChanges(r1, r2) ==
            IF "failed" \in {r1.type, r2.type} THEN << 0, 0 >>
            ELSE calculate_line_changes(diff_two_results(r1, r2, "throwaway", FALSE).diff)
        changes ==
            [i \in 1..Len(project_pairs) |->
               LET p1 == project_pairs[i][1]
                   p2 == project_pairs[i][2]
                   fsq == DifferingFiles(p1, p2)
               IN [k \in 1..Len(fsq) |->
                     FileChanges(DictGet(p1, fsq[k]), DictGet(p2, fsq[k]))]]
        total(cs, n) ==
            SumSeq([i \in 1..Len(cs) |-> SumSeq([k \in 1..Len(cs[i]) |-> cs[i][k][n]])])
    IN [raised |-> None,
        differing_projects |->
            Cardinality({ i \in 1..Len(project_pairs) :
                            ~DictEq(project_pairs[i][1], project_pairs[i][2]) }),
        differing_files |->
            SumSeq([i \in 1..Len(project_pairs) |->
                      Len(DifferingFiles(project_pairs[i][1], project_pairs[i][2]))]),
        additions |-> total(changes, 1),
        deletions |-> total(changes, 2),
        lines |-> SumSeq([i \in 1..Len(project_pairs) |->
                            project_line_count(project_pairs[i][1])]),
        files |-> SumSeq([i \in 1..Len(project_pairs) |-> Len(project_pairs[i][1])]),
        projects |-> Len(project_pairs)]

(***************************************************************************)
(* results.py : save_analysis and load_analysis_contents                   *)
(*                                                                         *)
(* The JSON text is kept as the tree json.dumps writes: a JSON value is    *)
(* tagged with its kind in `js`, a string is held as its escaped chars,    *)
(* and the object of a dataclass is a record of its fields.                *)
(***************************************************************************)
\* json.dumps(..., ensure_ascii=True) on one character
EscapeChar(c) ==
    IF c = NL THEN "\\n"
    ELSE IF c = "é" THEN "\\u00e9"
    ELSE c

\* json.loads on one (possibly escaped) character
UnescapeChar(t) ==
    IF t = "\\n" THEN NL
    ELSE IF t = "\\u00e9" THEN "é"
    ELSE t

json_dumps_text(t) == [i \in 1..Len(t) |-> EscapeChar(t[i])]

json_loads_text(e) == [i \in 1..Len(e) |-> UnescapeChar(e[i])]

\* json.dumps of a metadata or field value: tuples and lists are arrays
json_dumps_value(x) ==
    IF x.py \in {"list", "tuple"} THEN [js |-> "array", items |-> x.items]
    ELSE IF x.py = "str" THEN [js |-> "string", s |-> x.s]
    ELSE IF x.py = "number" THEN [js |-> "number", n |-> x.n]
    ELSE [js |-> "null"]

\* json.loads of a value: every array is a list
json_loads_value(j) ==
    IF j.js = "array" THEN PyList(j.items)
    ELSE IF j.js = "string" THEN PyStr(j.s)
    ELSE IF j.js = "number" THEN PyNum(j.n)
    ELSE PyNone

\* asdict + json.dumps of one file result
json_dumps_result(r) ==
    IF r.type = "reformatted"
    THEN [type |-> r.type, src |-> json_dumps_text(r.src), dst |-> json_dumps_text(r.dst),
          line_count |-> r.line_count, line_changes |-> json_dumps_value(r.line_changes)]
    ELSE IF r.type = "failed"
    THEN [type |-> r.type, src |-> json_dumps_text(r.src),
          error |-> json_dumps_text(r.error), message |-> json_dumps_text(r.message),
          log |-> json_dumps_value(r.log), line_count |-> r.line_count]
    ELSE [type |-> r.type, src |-> json_dumps_text(r.src), line_count |-> r.line_count]

\* json.loads of one file result object
json_loads_result(j) ==
    IF j.type = "reformatted"
    THEN [type |-> j.type, src |-> json_loads_text(j.src), dst |-> json_loads_text(j.dst),
          line_count |-> j.line_count, line_changes |-> json_loads_value(j.line_changes)]
    ELSE IF j.type = "failed"
    THEN [type |-> j.type, src |-> json_loads_text(j.src),
          error |-> json_loads_text(j.error), message |-> json_loads_text(j.message),
          log |-> json_loads_value(j.log), line_count |-> j.line_count]
    ELSE [type |-> j.type, src |-> json_loads_text(j.src), line_count |-> j.line_count]

json_dumps_project(c) ==
    [name |-> c.name, url |-> c.url,
     custom_arguments |-> json_dumps_value(c.custom_arguments),
     python_requires |-> json_dumps_value(c.python_requires),
     commit |-> json_dumps_value(c.commit)]

\* json.loads of one project object, then Project(**config)
json_loads_project(j) ==
    Project(j.name, j.url, json_loads_value(j.custom_arguments),
            json_loads_value(j.python_requires), json_loads_value(j.commit))

\* json.dumps(asdict(analysis), indent=2, ensure_ascii=True)
json_dumps(x) ==
    LET json_dumps_results(pr) ==
            [k \in 1..Len(pr) |->
               [key |-> pr[k].key, value |-> json_dumps_result(pr[k].value)]]
    IN
    [projects |-> [k \in 1..Len(x.projects) |->
                     [key |-> x.projects[k].key,
                      value |-> json_dumps_project(x.projects[k].value)]],
     results |-> [k \in 1..Len(x.results) |->
                    [key |-> x.results[k].key,
                     value |-> json_dumps_results(x.results[k].value)]],
     metadata |-> [k \in 1..Len(x.metadata) |->
                     [key |-> x.metadata[k].key,
                      value |-> json_dumps_value(x.metadata[k].value)]]]

\* json.loads(blob)
json_loads(blob) ==
    LET json_loads_results(j) ==
            [k \in 1..Len(j) |->
               [key |-> j[k].key, value |-> json_loads_result(j[k].value)]]
    IN
    [projects |-> [k \in 1..Len(blob.projects) |->
                     [key |-> blob.projects[k].key,
                      value |-> json_loads_project(blob.projects[k].value)]],
     results |-> [k \in 1..Len(blob.results) |->
                    [key |-> blob.results[k].key,
                     value |-> json_loads_results(blob.results[k].value)]],
     metadata |-> [k \in 1..Len(blob.metadata) |->
                     [key |-> blob.metadata[k].key,
                      value |-> json_loads_value(blob.metadata[k].value)]]]

\* tuple(r["line_changes"])
tuple(x) == PyTuple(x.items)

_parse_file_result_keep_list(r) ==
    IF r.type = "reformatted" THEN ReformattedResult(r.src, r.dst, r.line_count, r.line_changes)
    ELSE IF r.type = "nothing-changed" THEN NothingChangedResult(r.src, r.line_count)
    ELSE FailedResult(r.src, r.error, r.message, r.log, r.line_count)

\* load_analysis_contents._parse_file_result
_parse_file_result(r) ==
    IF r.type = "reformatted"
    THEN ReformattedResult(r.src, r.dst, r.line_count, tuple(r.line_changes))
    ELSE IF r.type = "nothing-changed" THEN NothingChangedResult(r.src, r.line_count)
    ELSE FailedResult(r.src, r.error, r.message, r.log, r.line_count)

\* A metadata key is the sequence of its words and separators.
DATA_FORMAT_KEY == << "data", "-", "format" >>

\* k.replace("_", "-")
replace_underscores(k) == [i \in 1..Len(k) |-> IF k[i] = "_" THEN "-" ELSE k[i]]

RECURSIVE dict_from_items(_)
\* a dict built from items in order: a repeated key keeps its first place
\* and takes the last value
dict_from_items(items) ==
    IF items = << >> THEN EmptyDict
    ELSE LET n == Len(items) IN
         DictSet(dict_from_items(SubSeq(items, 1, n - 1)), items[n].key, items[n].value)

\* the supported range of data-format, in tenths: 1 <= data_format < 2
DATA_FORMAT_MIN == 10
DATA_FORMAT_END == 20

supported_format_inclusive(data_format) ==
    IF data_format.py # "number" THEN "TypeError"
    ELSE IF DATA_FORMAT_MIN <= data_format.n /\ data_format.n <= DATA_FORMAT_END THEN "ok"
    ELSE "ValueError: unsupported analysis format"

\* the check `if not (1 <= data_format < 2): raise ValueError(...)`; None
\* (a missing key) and a str do not compare with an int
supported_format(data_format) ==
    IF data_format.py # "number" THEN "TypeError"
    ELSE IF DATA_FORMAT_MIN <= data_format.n /\ data_format.n < DATA_FORMAT_END THEN "ok"
    ELSE "ValueError: unsupported analysis format"

NoAnalysis == Analysis(EmptyDict, EmptyDict, EmptyDict)

\* load_analysis_contents(data): [status, analysis]
load_analysis_contents(data) ==
    LET projects == data.projects
        metadata == dict_from_items([i \in 1..Len(data.metadata) |->
                        [key |-> replace_underscores(data.metadata[i].key),
                         value |-> data.metadata[i].value]])
        data_format == IF DictHas(metadata, DATA_FORMAT_KEY)
                       THEN DictGet(metadata, DATA_FORMAT_KEY) ELSE PyNone
        status == supported_format(data_format)
        rs == [i \in 1..Len(data.results) |->
                 [key |-> data.results[i].key,
                  value |-> [k \in 1..Len(data.results[i].value) |->
                               [key |-> data.results[i].value[k].key,
                                value |-> _parse_file_result(
                                              data.results[i].value[k].value)]]]]
    IN IF status # "ok" THEN [status |-> status, analysis |-> NoAnalysis]
       ELSE [status |-> "ok", analysis |-> Analysis(projects, rs, metadata)]

\* the size of the JSON text in characters: the characters of every text,
\* and one for every other scalar
BlobSize(blob) ==
    LET TokenLen(t) == IF t = "\\u00e9" THEN 6 ELSE IF t = "\\n" THEN 2 ELSE 1
        TextSize(e) == SumSeq([i \in 1..Len(e) |-> TokenLen(e[i])])
        ResultSize(j) ==
            TextSize(j.src)
            + (IF j.type = "reformatted" THEN TextSize(j.dst) + 2 ELSE 0)
            + (IF j.type = "failed" THEN 3 ELSE 0)
            + 2
        ValueSize(j) == IF j.js = "array" THEN Len(j.items) + 1 ELSE 1
    IN SumSeq([i \in 1..Len(blob.projects) |->
                 4 + ValueSize(blob.projects[i].value.custom_arguments)])
       + SumSeq([i \in 1..Len(blob.results) |->
                 1 + SumSeq([k \in 1..Len(blob.results[i].value) |->
                               1 + ResultSize(blob.results[i].value[k].value)])])
       + SumSeq([i \in 1..Len(blob.metadata) |->
                 Len(blob.metadata[i].key) + ValueSize(blob.metadata[i].value)])

(***************************************************************************)
(* results.py : the cache and load_analysis                                *)
(*                                                                         *)
(* A path is its "./" prefix count, stem and suffix; a file is the text    *)
(* members it holds (one for a plain file), its st_mtime and st_size.  A   *)
(* cache entry is named by its key: blake2b is taken to be injective on    *)
(* the keys, so the name is the key string itself, kept as its four parts. *)
(* Fields `gen`, `source`, `touched`, `seen` and `returned` are history    *)
(* variables: they record what happened and steer nothing.                 *)
(***************************************************************************)
CACHE_MAX_ENTRIES == 5
DAY == 60 * 60 * 24
CACHE_LAST_ACCESS_CUTOFF == 60 * 60 * 24 * 5

\* saves per behaviour, seconds per clock step, last clock value, versions
MaxSaves == 2
TickDays == 3
MaxDays == 6
MaxVersion == 2
\* files put into the cache directory by something other than load_analysis
JunkCount == 3

Paths ==
    { [dots |-> 0, stem |-> "a", suffix |-> ".json"],
      [dots |-> 1, stem |-> "a", suffix |-> ".json"],
      [dots |-> 0, stem |-> "b", suffix |-> ".zip"] }

\* Path.resolve()
resolve(filepath) == [stem |-> filepath.stem, suffix |-> filepath.suffix]

ResolvedPaths == { resolve(f) : f \in Paths }

NoFile == [exists |-> FALSE, members |-> << >>, mtime |-> 0, size |-> 0,
           gen |-> 0, source |-> NoAnalysis, touched |-> FALSE]

\* the file save_analysis writes
WrittenFile(x, gen) ==
    [exists |-> TRUE,
     members |-> << [name |-> "analysis.json", blob |-> json_dumps(x)] >>,
     mtime |-> now, size |-> BlobSize(json_dumps(x)) + 1,
     gen |-> gen, source |-> x, touched |-> FALSE]

calculate_cache_key_without_mtime(filepath) ==
    << resolve(filepath), 0, fs[resolve(filepath)].size, version >>

\* calculate_cache_key: "{filepath};{st_mtime};{st_size};{__version__}"
calculate_cache_key(filepath) ==
    << resolve(filepath), fs[resolve(filepath)].mtime, fs[resolve(filepath)].size, version >>

\* what the caller can observe of the file when load_analysis starts
SeenOf(filepath) ==
    [path |-> resolve(filepath), mtime |-> fs[resolve(filepath)].mtime,
     size |-> fs[resolve(filepath)].size, version |-> version]

clear_cache_without_room(entries, ensure_room) ==
    LET limit == CACHE_MAX_ENTRIES
        k == IF Cardinality(entries) > limit THEN Cardinality(entries) - limit ELSE 0
        Oldest == { E \in SUBSET entries :
                      /\ Cardinality(E) = k
                      /\ \A e \in E, s \in entries \ E : e.atime <= s.atime }
    IN { { s \in entries \ E : ~(now - s.atime > CACHE_LAST_ACCESS_CUTOFF) } : E \in Oldest }

\* clear_cache: the possible contents of CACHE_DIR afterwards (entries with
\* one st_atime are sorted in the order iterdir() gave them, which is any)
clear_cache(entries, ensure_room) ==
    LET limit == CACHE_MAX_ENTRIES - (IF ensure_room THEN 1 ELSE 0)
        k == IF Cardinality(entries) > limit THEN Cardinality(entries) - limit ELSE 0
        Oldest == { E \in SUBSET entries :
                      /\ Cardinality(E) = k
                      /\ \A e \in E, s \in entries \ E : e.atime <= s.atime }
    IN { { s \in entries \ E : ~(now - s.atime > CACHE_LAST_ACCESS_CUTOFF) } : E \in Oldest }

full_parse_first_member(filepath) ==
    load_analysis_contents(json_loads(fs[resolve(filepath)].members[1].blob))

\* the part of load_analysis after the cache lookup, up to
\* load_analysis_contents: [status, analysis]
full_parse(filepath) ==
    LET f == fs[resolve(filepath)] IN
    IF filepath.suffix = ".zip" /\ Len(f.members) > 1
    THEN [status |-> "DSError: contains more than one member", analysis |-> NoAnalysis]
    ELSE load_analysis_contents(json_loads(f.members[1].blob))

NoCall ==
    [op |-> "none", path |-> [stem |-> "", suffix |-> ""], status |-> "", cached |-> FALSE,
     analysis |-> NoAnalysis, found |-> "none", prior |-> FALSE, prior_returned |-> NoAnalysis,
     touched |-> FALSE, source |-> NoAnalysis, fresh |-> FALSE, evicted |-> 0, dropped |-> 0]

cached_copy_without_except(e) == IF e.pickle.intact THEN "return" ELSE "raise"

\* try: pickle.loads(...)  except Exception: unlink  else: return
cached_copy(e) == IF e.pickle.intact THEN "return" ELSE "unlink"

load_uncached_clears_first(filepath, entries, base) ==
    LET f == fs[resolve(filepath)] IN
    UNION {
      { [call |-> [base EXCEPT !.status = parsed.status, !.analysis = parsed.analysis],
         cache |-> IF parsed.status # "ok" THEN S
                   ELSE S \cup { [key |-> calculate_cache_key(filepath), atime |-> now,
                                  pickle |-> [intact |-> TRUE, analysis |-> parsed.analysis],
                                  by_load |-> TRUE, seen |-> SeenOf(filepath),
                                  gen |-> f.gen, returned |-> parsed.analysis] }] :
        S \in clear_cache(entries, TRUE) }
      : parsed \in { full_parse(filepath) } }

\* load_analysis from the suffix test on, with `entries` in CACHE_DIR
load_uncached(filepath, entries, base) ==
    LET f == fs[resolve(filepath)]
        limit == CACHE_MAX_ENTRIES - 1
        k == IF Cardinality(entries) > limit THEN Cardinality(entries) - limit ELSE 0
    IN UNION {
         IF parsed.status # "ok"
         THEN { [call |-> [base EXCEPT !.status = parsed.status], cache |-> entries] }
         ELSE { [call |-> [base EXCEPT !.status = "ok", !.analysis = parsed.analysis,
                                       !.fresh = TRUE, !.evicted = k,
                                       !.dropped = Cardinality(entries) - k - Cardinality(S)],
                 cache |-> S \cup { [key |-> calculate_cache_key(filepath), atime |-> now,
                                     pickle |-> [intact |-> TRUE,
                                                 analysis |-> parsed.analysis],
                                     by_load |-> TRUE, seen |-> SeenOf(filepath),
                                     gen |-> f.gen, returned |-> parsed.analysis] }] :
                S \in clear_cache(entries, TRUE) }
         : parsed \in { full_parse(filepath) } }

\* load_analysis(filepath): the possible outcomes, each the value returned
\* or the exception raised, and the cache directory left behind
load_analysis(filepath) ==
    LET rp == resolve(filepath)
        f == fs[rp]
        key == calculate_cache_key(filepath)
        hits == { e \in cache : e.key = key }
        seen == SeenOf(filepath)
        priors == { e \in cache : e.by_load /\ e.pickle.intact /\ e.seen = seen }
        base == [NoCall EXCEPT !.op = "load", !.path = rp,
                    !.found = IF hits = {} THEN "none"
                              ELSE IF \E e \in hits : e.pickle.intact THEN "intact"
                              ELSE "corrupt",
                    !.prior = (priors # {}),
                    !.prior_returned = IF priors = {} THEN NoAnalysis
                                       ELSE (CHOOSE e \in priors : TRUE).returned,
                    !.touched = f.touched, !.source = f.source]
        \* the entry named by the key, when there is one
        e == CHOOSE h \in hits : TRUE
    IN
    IF ~f.exists
    THEN { [call |-> [base EXCEPT !.status = "FileNotFoundError"], cache |-> cache] }
    ELSE IF hits # {} /\ cached_copy(e) = "return"
    THEN \* reading the entry may or may not move its st_atime (mount options)
         { [call |-> [base EXCEPT !.status = "ok", !.cached = TRUE,
                                  !.analysis = e.pickle.analysis,
                                  !.fresh = (e.gen = f.gen)],
            cache |-> (cache \ {e}) \cup {[e EXCEPT !.atime = t]}] : t \in {e.atime, now} }
    ELSE IF hits # {} /\ cached_copy(e) = "raise"
    THEN { [call |-> [base EXCEPT !.status = "UnpicklingError"], cache |-> cache] }
    ELSE \* no entry, or one that was unlinked
         load_uncached(filepath, IF hits = {} THEN cache ELSE cache \ {e}, base)

(***************************************************************************)
(* analysis.py : analyze_projects and its worker pool                      *)
(***************************************************************************)
ProjectNames == <<"p1", "p2">>

\* the work_dir / project.name directory
ProjectPath(name) == name

\* the sorted list of n files under a project's directory
SortedFiles(name, n) == [i \in 1..n |-> [root |-> ProjectPath(name), rel |-> i]]

IdleAnalyze ==
    /\ apc = "off"
    /\ selected_projects = << >>
    /\ work_dir = << >>
    /\ setup_log = << >>
    /\ results_file = [kind |-> "absent"]
    /\ prepared = << >>
    /\ files_and_modes = << >>
    /\ proj_idx = 1
    /\ data_packets = << >>
    /\ next_task = 1
    /\ running = {}
    /\ outbox = << >>
    /\ next_yield = 1
    /\ file_results = EmptyDict
    /\ results = EmptyDict
    /\ overall = EmptyDict
    /\ rollup = EmptyDict
    /\ aerror = None
    /\ outcomes = << >>
    /\ out_of_order = FALSE

\* the analyze command before setup_projects: the projects (a commit pinned
\* or not), what the work directory holds, and the results file
InitAnalyze ==
    /\ apc = "setup"
    \* the first project may be pinned to the commit c1 and the work
    \* directory may hold a checkout of it, at c0 or at c1; the other
    \* selected projects are checked out at c0
    /\ \E n \in 1..Len(ProjectNames) : \E pin \in {PyNone, PyStr("c1")} :
         /\ selected_projects =
              [i \in 1..n |->
                 Project(ProjectNames[i], << "https://example.org/", ProjectNames[i] >>,
                         PyList(<< >>), PyNone, IF i = 1 THEN pin ELSE PyNone)]
         /\ work_dir \in
              { w \in [{ProjectNames[i] : i \in 1..Len(ProjectNames)} ->
                         {"absent", "c0", "c1"}] :
                  \A i \in 2..Len(ProjectNames) :
                     w[ProjectNames[i]] = (IF i <= n THEN "c0" ELSE "absent") }
    /\ setup_log = << >>
    /\ results_file \in {[kind |-> "absent"], [kind |-> "old"]}
    /\ prepared = << >>
    /\ files_and_modes = << >>
    /\ proj_idx = 1
    /\ data_packets = << >>
    /\ next_task = 1
    /\ running = {}
    /\ outbox = << >>
    /\ next_yield = 1
    /\ file_results = EmptyDict
    /\ results = EmptyDict
    /\ overall = EmptyDict
    /\ rollup = EmptyDict
    /\ aerror = None
    /\ outcomes = << >>
    /\ out_of_order = FALSE

can_reuse_any_checkout(target, commit) == target # "absent"

\* setup_projects: can_reuse, from the target directory (absent, or the HEAD
\* of the checkout in it) and the commit the project pins
can_reuse(target, commit) ==
    IF target # "absent"
    THEN (IF commit = PyNone THEN TRUE ELSE commit.s = target)
    ELSE FALSE

\* one turn of the loop of setup_projects; a git command of clone_repo or
\* of get_commit may exit non-zero, which check=True turns into
\* CalledProcessError
SetupProject ==
    /\ UNCHANGED not_analyze
    /\ apc = "setup"
    /\ Len(prepared) < Len(selected_projects)
    /\ LET proj == selected_projects[Len(prepared) + 1]
           target == work_dir[proj.name]
           entry(did, head) ==
               [name |-> proj.name, did |-> did, target |-> target,
                commit |-> proj.commit, head |-> head]
           did == IF can_reuse(target, proj.commit) THEN "reuse" ELSE "clone"
           \* the HEAD get_commit reads afterwards: that of the checkout that
           \* was there, the pinned commit checked out, or the tip cloned
           head == IF did = "reuse" THEN target
                   ELSE IF proj.commit # PyNone THEN proj.commit.s
                   ELSE "tip"
       IN \E git_ok \in BOOLEAN :
            IF git_ok
            THEN /\ work_dir' = [work_dir EXCEPT ![proj.name] = head]
                 /\ prepared' = Append(prepared, [proj EXCEPT !.commit = PyStr(head)])
                 /\ setup_log' = Append(setup_log, entry(did, head))
                 /\ UNCHANGED << apc, aerror >>
            ELSE /\ apc' = "crashed"
                 /\ aerror' = "CalledProcessError"
                 /\ setup_log' = Append(setup_log, entry(did, "none"))
                 /\ UNCHANGED << work_dir, prepared >>
    /\ UNCHANGED << selected_projects, results_file, files_and_modes, proj_idx, data_packets,
                    next_task, running, outbox, next_yield, file_results, results, overall,
                    rollup, outcomes, out_of_order >>

RECURSIVE remove_unsupported(_, _)
\* analyze's loop `for proj in projects: if not proj.supported_by_runtime:
\* projects.remove(proj)`: the list iterator is at position idx of the list
\* as it is now, and list.remove drops the first element equal to proj
remove_unsupported(projects, idx) ==
    LET supported_by_runtime(proj) ==
            \/ proj.python_requires = PyNone
            \/ LET major == CASE proj.python_requires.s = ">=3.6" -> 3
                               [] proj.python_requires.s = ">=3.7" -> 3
                               [] proj.python_requires.s = ">=5.0.0" -> 5
               IN major <= 3
        first == CHOOSE i \in 1..Len(projects) :
                   /\ projects[i] = projects[idx]
                   /\ \A j \in 1..i - 1 : projects[j] # projects[idx]
    IN
    IF idx > Len(projects) THEN projects
    ELSE IF supported_by_runtime(projects[idx]) THEN remove_unsupported(projects, idx + 1)
    ELSE remove_unsupported(SubSeq(projects, 1, first - 1)
                              \o SubSeq(projects, first + 1, Len(projects)), idx + 1)

\* analyze: the projects handed to setup_projects
filter_projects(projects, exclude, select) ==
    LET not_excluded == SelectSeq(projects, LAMBDA p : p.name \notin exclude)
        selected == IF select # {} THEN SelectSeq(not_excluded, LAMBDA p : p.name \in select)
                    ELSE not_excluded
    IN remove_unsupported(selected, 1)

\* get_project_files_and_mode after black.main has returned: shim_calls are
\* the source lists black handed to the patched reformat_many (none when
\* black found nothing to format). A path is its position in the sort order
\* of paths and its suffix.
get_project_files_and_mode(shim_calls) ==
    LET files == join(shim_calls)
        mode == IF shim_calls = << >> THEN None ELSE "FileMode"
    IN
    IF files = << >> \/ mode # "FileMode"
    THEN [raised |-> "AssertionError", files |-> << >>, mode |-> None]
    ELSE [raised |-> None,
          files |-> SortSeq(SelectSeq(files, LAMBDA f : f.suffix \in {".py", ".pyi"}),
                            LAMBDA f, g : f.path < g.path),
          mode |-> mode]

\* analyze_projects up to its pool: get_project_files_and_mode for every
\* prepared project
DiscoverFiles ==
    /\ UNCHANGED not_analyze
    /\ apc = "setup"
    /\ Len(prepared) = Len(selected_projects)
    /\ \E counts \in [1..Len(prepared) -> 0..MaxFiles] :
         files_and_modes' = [i \in 1..Len(prepared) |->
                               SortedFiles(prepared[i].name, counts[i])]
    /\ apc' = "loop"
    /\ UNCHANGED << selected_projects, work_dir, setup_log, results_file, prepared, proj_idx,
                    data_packets, next_task, running, outbox, next_yield, file_results,
                    results, overall, rollup, aerror, outcomes, out_of_order >>

\* the loop body up to the call of check_project_files
StartProject ==
    /\ UNCHANGED not_analyze
    /\ apc = "loop"
    /\ proj_idx <= Len(prepared)
    /\ data_packets' = [i \in 1..Len(files_and_modes[proj_idx]) |->
                          [file |-> files_and_modes[proj_idx][i],
                           project_path |-> ProjectPath(prepared[proj_idx].name)]]
    /\ file_results' = EmptyDict
    /\ next_task' = 1
    /\ running' = {}
    /\ outbox' = << >>
    /\ next_yield' = 1
    /\ apc' = "imap"
    /\ outcomes' = << >>
    /\ UNCHANGED << selected_projects, work_dir, setup_log, results_file >>
    /\ UNCHANGED << prepared, files_and_modes, proj_idx, results, overall, rollup, aerror,
                    out_of_order >>

\* a free worker takes the next packet off the pool's task queue
WorkerTake ==
    /\ UNCHANGED not_analyze
    /\ apc = "imap"
    /\ next_task <= Len(data_packets)
    /\ Cardinality(running) < PoolSize
    /\ running' = running \cup {next_task}
    /\ next_task' = next_task + 1
    /\ UNCHANGED << selected_projects, work_dir, setup_log, results_file >>
    /\ UNCHANGED << apc, prepared, files_and_modes, proj_idx, data_packets, outbox,
                    next_yield, file_results, results, overall, rollup, aerror,
                    outcomes, out_of_order >>

\* a worker finishes check_file_shim on its packet, in any order
WorkerFinish ==
    /\ UNCHANGED not_analyze
    /\ apc = "imap"
    /\ \E i \in running : \E outcome \in FormatterOutcomes :
         /\ outbox' = [j \in (DOMAIN outbox) \cup {i} |->
                         IF j = i THEN check_file_shim(data_packets[i], outcome)
                         ELSE outbox[j]]
         /\ outcomes' = [j \in (DOMAIN outcomes) \cup {i} |->
                           IF j = i THEN outcome ELSE outcomes[j]]
         /\ out_of_order' = (out_of_order \/ \E j \in running : j < i)
         /\ running' = running \ {i}
    /\ UNCHANGED << selected_projects, work_dir, setup_log, results_file >>
    /\ UNCHANGED << apc, prepared, files_and_modes, proj_idx, data_packets, next_task,
                    next_yield, file_results, results, overall, rollup, aerror >>

imap_unordered_ready(box, n) == DOMAIN box

\* the indices pool.imap can yield next: the next one in submission order
imap_ready(box, n) == (DOMAIN box) \cap {n}

\* one turn of the for loop over pool.imap(check_file_shim, data_packets)
Consume ==
    /\ UNCHANGED not_analyze
    /\ apc = "imap"
    /\ \E i \in imap_ready(outbox, next_yield) :
         /\ IF outbox[i].raised # None
            THEN /\ apc' = "crashed"
                 /\ aerror' = outbox[i].raised
                 /\ UNCHANGED file_results
            ELSE /\ file_results' = DictSet(file_results, outbox[i].value.filepath,
                                            outbox[i].value.result)
                 /\ UNCHANGED << apc, aerror >>
         /\ outbox' = [j \in (DOMAIN outbox) \ {i} |-> outbox[j]]
         /\ outcomes' = [j \in (DOMAIN outcomes) \ {i} |-> outcomes[j]]
    /\ next_yield' = next_yield + 1
    /\ UNCHANGED << selected_projects, work_dir, setup_log, results_file >>
    /\ UNCHANGED << prepared, files_and_modes, proj_idx, data_packets, next_task,
                    running, results, overall, rollup, out_of_order >>

\* the rest of the loop body, once pool.imap is exhausted
FinishProject ==
    /\ UNCHANGED not_analyze
    /\ apc = "imap"
    /\ next_yield = Len(data_packets) + 1
    /\ LET name == prepared[proj_idx].name
           overall_result == analysis_get_overall_result(DictValues(file_results))
       IN /\ results' = DictSet(results, name, file_results)
          /\ IF overall_result = "AssertionError"
             THEN /\ apc' = "crashed"
                  /\ aerror' = "AssertionError"
                  /\ UNCHANGED << overall, proj_idx >>
             ELSE /\ overall' = DictSet(overall, name, overall_result)
                  /\ proj_idx' = proj_idx + 1
                  /\ apc' = IF proj_idx = Len(prepared) THEN "done" ELSE "loop"
                  /\ UNCHANGED aerror
    /\ UNCHANGED << selected_projects, work_dir, setup_log, results_file >>
    /\ UNCHANGED << prepared, files_and_modes, data_packets, next_task, running, outbox,
                    next_yield, file_results, rollup, outcomes, out_of_order >>

build_analysis_of_all_projects(ps, rs) ==
    [projects |-> [i \in 1..Len(ProjectNames) |->
                     [key |-> ProjectNames[i], value |-> ProjectNames[i]]],
     results |-> rs,
     metadata |-> << >>]

\* the Analysis the analyze command builds: projects={p.name: p ...} over
\* the prepared projects, the results of analyze_projects, the metadata
build_analysis(ps, rs) ==
    [projects |-> dict_from_items([i \in 1..Len(ps) |-> [key |-> ps[i].name, value |-> ps[i]]]),
     results |-> rs,
     metadata |-> << [key |-> << "black", "-", "version" >>, value |-> PyStr("22.1")],
                     [key |-> << "black", "-", "extra", "-", "args" >>,
                      value |-> PyTuple(<< >>)],
                     [key |-> << "forced", "-", "style" >>, value |-> PyNone],
                     [key |-> << "created", "-", "at" >>, value |-> PyStr("today")],
                     [key |-> << "data", "-", "format" >>, value |-> PyNum(13)] >>]

SaveResults_in_finally ==
    /\ UNCHANGED not_analyze
    /\ apc \in {"done", "crashed"}
    /\ results_file.kind # "written"
    /\ results_file' = [kind |-> "written", analysis |-> build_analysis(prepared, results)]
    /\ apc' = IF apc = "done" THEN "saved" ELSE apc
    /\ UNCHANGED << selected_projects, work_dir, setup_log, prepared, files_and_modes,
                    proj_idx, data_packets, next_task, running, outbox, next_yield,
                    file_results, results, overall, rollup, aerror, outcomes, out_of_order >>

\* the analyze command after analyze_projects has returned:
\* analysis = Analysis(...); save_analysis(results_path, analysis)
SaveResults ==
    /\ UNCHANGED not_analyze
    /\ apc = "done"
    /\ results_file' = [kind |-> "written", analysis |-> build_analysis(prepared, results)]
    /\ apc' = "saved"
    /\ UNCHANGED << selected_projects, work_dir, setup_log, prepared, files_and_modes,
                    proj_idx, data_packets, next_task, running, outbox, next_yield,
                    file_results, results, overall, rollup, aerror, outcomes, out_of_order >>

\* results.py make_analysis_summary: reads proj.overall_result of every project
make_analysis_summary ==
    /\ UNCHANGED not_analyze
    /\ apc = "saved"
    /\ LET values == [i \in 1..Len(results) |->
                        get_overall_result(DictValues(results[i].value))]
       IN IF \E i \in 1..Len(results) : values[i] = "AssertionError"
          THEN /\ apc' = "crashed"
               /\ aerror' = "AssertionError"
               /\ UNCHANGED rollup
          ELSE /\ rollup' = [i \in 1..Len(results) |->
                               [key |-> results[i].key, value |-> values[i]]]
               /\ apc' = "summarized"
               /\ UNCHANGED aerror
    /\ UNCHANGED << selected_projects, work_dir, setup_log, results_file >>
    /\ UNCHANGED << prepared, files_and_modes, proj_idx, data_packets, next_task, running,
                    outbox, next_yield, file_results, results, overall, outcomes,
                    out_of_order >>

NextAnalyze ==
    \/ SetupProject
    \/ DiscoverFiles
    \/ StartProject
    \/ WorkerTake
    \/ WorkerFinish
    \/ Consume
    \/ FinishProject
    \/ SaveResults
    \/ make_analysis_summary

(***************************************************************************)
(* The analyses that are saved and loaded                                  *)
(***************************************************************************)
\* source texts (plain, and with a non-ASCII character) and outputs
Texts(k) ==
    CASE k = "a" -> << "a", NL >>
      [] k = "e" -> << "é", NL, "b", NL >>
      [] k = "A" -> << "A", NL >>
      [] k = "AB" -> << "A", NL, "B", NL >>

\* file results of the three kinds
FileResults(k) ==
    IF k = "nothing" THEN NothingChangedResult(Texts("e"), UNSET_COUNT)
    ELSE IF k \in {"reformatted", "reformatted2"}
    THEN ReformattedResult(Texts("a"), Texts(IF k = "reformatted" THEN "A" ELSE "AB"),
                           UNSET_COUNT, UNSET_CHANGES)
    ELSE FailedResult(Texts(IF k = "failed" THEN "a" ELSE "e"),
                      IF k = "failed" THEN << "AssertionError" >> ELSE << "InvalidInput" >>,
                      IF k = "failed" THEN << "INTERNAL ERROR", ":", "é" >>
                      ELSE << "Cannot parse" >>,
                      IF k = "failed" THEN PyNone ELSE PyStr("log"),
                      UNSET_COUNT)

Projects(k) ==
    CASE k = "p1" -> Project("p1", "https://example.org/p1.git", PyList(<< >>), PyNone, PyNone)
      [] k = "p2" -> Project("p2", "https://example.org/p2.git", PyList(<< "--fast" >>),
                             PyStr(">=3.7"), PyStr("abc123"))
      [] k = "p1_other_commit" ->
           Project("p1", "https://example.org/p1.git", PyList(<< >>), PyNone, PyStr("def456"))

Entry(k, v) == [key |-> k, value |-> v]

\* a ProjectResults: the files f1, f2 with file results of the given kinds
SomeProjectResults(kinds) ==
    [i \in 1..Len(kinds) |-> Entry(IF i = 1 THEN "f1" ELSE "f2", FileResults(kinds[i]))]

\* an Analysis of the projects p1, p2 whose files have results of the given
\* kinds, as the analyze command builds it (projects={p.name: p ...})
SampleAnalysis(kinds, metadata) ==
    Analysis([i \in 1..Len(kinds) |->
                Entry(IF i = 1 THEN "p1" ELSE "p2", Projects(IF i = 1 THEN "p1" ELSE "p2"))],
             [i \in 1..Len(kinds) |->
                Entry(IF i = 1 THEN "p1" ELSE "p2", SomeProjectResults(kinds[i]))],
             metadata)

DataFormat(tenths) == << Entry(DATA_FORMAT_KEY, PyNum(tenths)) >>

\* metadata: as the analyze command writes it (cli.py), black_args being a
\* tuple; the same with a list; with underscores in keys; without a
\* data-format; with a data-format that is no number
Metadata(k) ==
    CASE k = "analyze" ->
           << Entry(<< "black", "-", "version" >>, PyStr("22.1")),
              Entry(<< "black", "-", "extra", "-", "args" >>, PyTuple(<< "-S" >>)),
              Entry(DATA_FORMAT_KEY, PyNum(13)) >>
      [] k = "lists" ->
           << Entry(<< "black", "-", "version" >>, PyStr("22.1")),
              Entry(<< "black", "-", "extra", "-", "args" >>, PyList(<< "-S" >>)),
              Entry(DATA_FORMAT_KEY, PyNum(13)) >>
      [] k = "underscore" -> << Entry(<< "data", "_", "format" >>, PyNum(13)) >>
      [] k = "underscore_extra" ->
           << Entry(DATA_FORMAT_KEY, PyNum(13)),
              Entry(<< "created", "_", "at" >>, PyStr("today")) >>
      [] k = "no_format" -> << Entry(<< "black", "-", "version" >>, PyStr("22.1")) >>
      [] k = "str_format" -> << Entry(DATA_FORMAT_KEY, PyStr("1.3")) >>

Metadatas ==
    { Metadata(k) : k \in {"analyze", "lists", "underscore", "underscore_extra",
                           "no_format", "str_format"} }
    \cup { DataFormat(d) : d \in {9, 10, 19, 20} }

RoundTripAnalyses ==
    { SampleAnalysis(<< << "reformatted" >>, << "failed", "failed_log" >> >>, m) :
        m \in Metadatas }
    \cup { SampleAnalysis(kinds, DataFormat(13)) :
             kinds \in { << >>, << << "nothing", "reformatted" >> >> } }

(***************************************************************************)
(* Saving and loading: the steps                                           *)
(***************************************************************************)
IdlePersist ==
    /\ fs = [r \in ResolvedPaths |-> NoFile]
    /\ cache = {}
    /\ now = 0
    /\ version = 1
    /\ analysis = NoAnalysis
    /\ last = NoCall
    /\ writes = 0

InitRoundTrip ==
    /\ fs = [r \in ResolvedPaths |-> NoFile]
    /\ cache = {}
    /\ now = 0
    /\ version = 1
    /\ analysis \in RoundTripAnalyses
    /\ last = NoCall
    /\ writes = 0

InitCache ==
    /\ now = 0
    /\ version = 1
    /\ fs = [r \in ResolvedPaths |->
               IF r.suffix = ".zip"
               THEN WrittenFile(SampleAnalysis(<< << "reformatted" >>,
                                                  << "failed", "failed_log" >> >>,
                                               Metadata("lists")), 2)
               ELSE WrittenFile(SampleAnalysis(<< << "nothing", "reformatted" >> >>,
                                               DataFormat(13)), 1)]
    /\ cache = {}
    /\ analysis = NoAnalysis
    /\ last = NoCall
    /\ writes = 0

\* the analyze command has produced another Analysis
Analyze ==
    /\ writes < MaxSaves
    /\ analysis' \in RoundTripAnalyses \ {analysis}
    /\ UNCHANGED << fs, cache, now, version, writes >>
    /\ last' = NoCall
    /\ UNCHANGED not_persist

\* save_analysis(filepath, analysis)
Save(filepath) ==
    /\ writes < MaxSaves
    /\ fs' = [fs EXCEPT ![resolve(filepath)] = WrittenFile(analysis, writes + 1)]
    /\ writes' = writes + 1
    /\ UNCHANGED << cache, now, version, analysis >>
    /\ last' = NoCall
    /\ UNCHANGED not_persist

\* analysis, cached = load_analysis(filepath)
Load(filepath) ==
    /\ \E o \in load_analysis(filepath) :
         /\ cache' = o.cache
         /\ last' = o.call
    /\ fs' = [fs EXCEPT ![resolve(filepath)].touched = FALSE]
    /\ UNCHANGED << now, version, analysis, writes >>
    /\ UNCHANGED not_persist

\* another file is added to an archive save_analysis wrote
AddMember(filepath) ==
    /\ filepath.suffix = ".zip"
    /\ Len(fs[resolve(filepath)].members) = 1
    /\ fs' = [fs EXCEPT ![resolve(filepath)].members = Append(@, [name |-> "notes.txt",
                                                                  blob |-> << >>]),
                        ![resolve(filepath)].size = @ + 1,
                        ![resolve(filepath)].mtime = now]
    /\ UNCHANGED << cache, now, version, analysis, writes >>
    /\ last' = NoCall
    /\ UNCHANGED not_persist

\* the clock moves on
Tick ==
    /\ now + TickDays * DAY <= MaxDays * DAY
    /\ now' = now + TickDays * DAY
    /\ UNCHANGED << fs, cache, version, analysis, writes >>
    /\ last' = NoCall
    /\ UNCHANGED not_persist

\* touch: the file's st_mtime becomes the current time
Touch(r) ==
    /\ fs[r].exists
    /\ fs[r].mtime # now
    /\ fs' = [fs EXCEPT ![r].mtime = now, ![r].touched = TRUE]
    /\ UNCHANGED << cache, now, version, analysis, writes >>
    /\ last' = NoCall
    /\ UNCHANGED not_persist

\* something else writes files into the (still empty) cache directory
Plant ==
    /\ cache = {}
    /\ cache' = cache \cup
         { [key |-> << [stem |-> "idk", suffix |-> ""], i, 0, 0 >>, atime |-> now,
            pickle |-> [intact |-> FALSE, analysis |-> NoAnalysis],
            by_load |-> FALSE,
            seen |-> [path |-> [stem |-> "idk", suffix |-> ""], mtime |-> i,
                      size |-> 0, version |-> 0],
            gen |-> 0, returned |-> NoAnalysis] : i \in 1..JunkCount }
    /\ UNCHANGED << fs, now, version, analysis, writes >>
    /\ last' = NoCall
    /\ UNCHANGED not_persist

\* the cache entry of a file as it is now stops being loadable
Corrupt ==
    /\ \A e \in cache : e.by_load => e.pickle.intact
    /\ \E e \in cache :
         /\ e.by_load
         /\ \E f \in Paths : e.key = calculate_cache_key(f)
         /\ cache' = (cache \ {e}) \cup {[e EXCEPT !.pickle.intact = FALSE]}
    /\ UNCHANGED << fs, now, version, analysis, writes >>
    /\ last' = NoCall
    /\ UNCHANGED not_persist

\* another diff-shades version is installed (before the clock has moved)
Upgrade ==
    /\ version < MaxVersion
    /\ now = 0
    /\ version' = version + 1
    /\ UNCHANGED << fs, cache, now, analysis, writes >>
    /\ last' = NoCall
    /\ UNCHANGED not_persist

NextRoundTrip ==
    \/ Analyze
    \/ \E f \in Paths : Save(f)
    \/ \E f \in Paths : Load(f)
    \/ \E f \in Paths : AddMember(f)
    \/ Plant
    \/ Corrupt

NextCache ==
    \/ \E f \in Paths : Load(f)
    \/ \E r \in ResolvedPaths : Touch(r)
    \/ Tick
    \/ Plant
    \/ Corrupt
    \/ Upgrade

(***************************************************************************)
(* cli.py : the compare command                                            *)
(***************************************************************************)
\* normalize_input: v.casefold() on the project keys that are typed in
normalize_input(v) == IF v = None THEN None ELSE IF v = "P1" THEN "p1" ELSE v

\* sorted(names), by the order of str on the names that occur
sorted(S) == SelectSeq(<< "p1", "p2", "zz" >>, LAMBDA n : n \in S)

\* analysis-path1 and analysis-path2
ComparePaths ==
    << [dots |-> 0, stem |-> "a", suffix |-> ".json"],
       [dots |-> 0, stem |-> "b", suffix |-> ".zip"] >>

\* a project an Analysis holds, or does not hold: the key of Projects and
\* the kinds of its file results
Slot(present, proj, kinds) == [present |-> present, proj |-> proj, kinds |-> kinds]

\* an Analysis of up to two projects
CompareAnalysis(c1, c2) ==
    LET cs == SelectSeq(<< c1, c2 >>, LAMBDA c : c.present)
        project(i) == Projects(cs[i].proj)
    IN Analysis([i \in 1..Len(cs) |-> Entry(project(i).name, project(i))],
                [i \in 1..Len(cs) |-> Entry(project(i).name, SomeProjectResults(cs[i].kinds))],
                DataFormat(13))

FirstAnalyses ==
    { CompareAnalysis(c1, c2) :
        c1 \in { Slot(FALSE, "p1", << >>),
                 Slot(TRUE, "p1", << "nothing", "reformatted" >>),
                 Slot(TRUE, "p1", << "nothing" >>) },
        c2 \in { Slot(FALSE, "p2", << >>),
                 Slot(TRUE, "p2", << "failed_log" >>) } }

SecondAnalyses ==
    { CompareAnalysis(c1, c2) :
        c1 \in { Slot(FALSE, "p1", << >>),
                 Slot(TRUE, "p1", << "nothing", "reformatted" >>),
                 Slot(TRUE, "p1", << "nothing", "reformatted2" >>),
                 Slot(TRUE, "p1", << "nothing", "failed" >>),
                 Slot(TRUE, "p1", << "nothing" >>),
                 Slot(TRUE, "p1_other_commit", << "nothing", "reformatted2" >>) },
        c2 \in { Slot(FALSE, "p2", << >>),
                 Slot(TRUE, "p2", << "failed_log" >>),
                 Slot(TRUE, "p2", << "failed" >>) } }

IdleCompare ==
    /\ cpc = "off"
    /\ cargs = [check |-> FALSE, format |-> None, project_key |-> None]
    /\ analysis_one = NoAnalysis
    /\ analysis_two = NoAnalysis
    /\ names = << >>
    /\ name_idx = 1
    /\ shared_projects = << >>
    /\ console = << >>
    /\ cexit = -1
    /\ cerror = None

\* `diff-shades compare a.json b.zip [project] [--check] [--diff|--list]`
\* is started on two saved analyses, the cache directory being empty
InitCompare ==
    /\ now = 0
    /\ version = 1
    /\ \E a1 \in FirstAnalyses, a2 \in SecondAnalyses :
         fs = [r \in ResolvedPaths |->
                 IF r = resolve(ComparePaths[1]) THEN WrittenFile(a1, 1) ELSE WrittenFile(a2, 2)]
    /\ cache = {}
    /\ analysis = NoAnalysis
    /\ last = NoCall
    /\ writes = 0
    /\ cpc = "load1"
    /\ cargs \in [check : BOOLEAN, format : {None, "diff", "list"},
                  project_key : { normalize_input(v) : v \in {None, "P1", "zz"} }]
    /\ analysis_one = NoAnalysis
    /\ analysis_two = NoAnalysis
    /\ names = << >>
    /\ name_idx = 1
    /\ shared_projects = << >>
    /\ console = << >>
    /\ cexit = -1
    /\ cerror = None

Item(kind, about, text) == [kind |-> kind, about |-> about, text |-> text]

\* analysis_one = load_analysis(analysis_path1, msg="first analysis")
CompareLoadFirst ==
    /\ cpc = "load1"
    /\ \E o \in load_analysis(ComparePaths[1]) :
         /\ cache' = o.cache
         /\ last' = o.call
         /\ IF o.call.status = "ok"
            THEN /\ analysis_one' = o.call.analysis
                 /\ console' = Append(console, Item("log", "first analysis", << >>))
                 /\ cpc' = "load2"
                 /\ UNCHANGED << cexit, cerror >>
            ELSE /\ cerror' = o.call.status
                 /\ cexit' = 1
                 /\ cpc' = "done"
                 /\ UNCHANGED << analysis_one, console >>
    /\ fs' = [fs EXCEPT ![resolve(ComparePaths[1])].touched = FALSE]
    /\ UNCHANGED << now, version, analysis, writes >>
    /\ UNCHANGED << cargs, analysis_two, names, name_idx, shared_projects >>
    /\ UNCHANGED << avars, call_args, call_out, cache_dir, procs >>

\* analysis_two = load_analysis(analysis_path2, msg="second analysis"), and
\* the names to walk
CompareLoadSecond ==
    /\ cpc = "load2"
    /\ \E o \in load_analysis(ComparePaths[2]) :
         /\ cache' = o.cache
         /\ last' = o.call
         /\ IF o.call.status = "ok"
            THEN /\ analysis_two' = o.call.analysis
                 /\ console' = Append(console, Item("log", "second analysis", << >>))
                 /\ names' = IF cargs.project_key = None
                             THEN sorted(DictKeySet(analysis_one.projects)
                                         \cup DictKeySet(o.call.analysis.projects))
                             ELSE sorted({cargs.project_key})
                 /\ cpc' = IF names' = << >> THEN "summary" ELSE "select"
                 /\ UNCHANGED << cexit, cerror >>
            ELSE /\ cerror' = o.call.status
                 /\ cexit' = 1
                 /\ cpc' = "done"
                 /\ UNCHANGED << analysis_two, console, names >>
    /\ fs' = [fs EXCEPT ![resolve(ComparePaths[2])].touched = FALSE]
    /\ UNCHANGED << now, version, analysis, writes >>
    /\ UNCHANGED << cargs, analysis_one, name_idx, shared_projects >>
    /\ UNCHANGED << avars, call_args, call_out, cache_dir, procs >>

select_project_by_name(n, one, two) ==
    IF ~DictHas(one.projects, n) \/ ~DictHas(two.projects, n) THEN "absent"
    ELSE "shared"

\* the three branches of the selection loop
select_project(n, one, two) ==
    IF ~DictHas(one.projects, n) \/ ~DictHas(two.projects, n) THEN "absent"
    ELSE IF DictGet(one.projects, n) # DictGet(two.projects, n) THEN "different"
    ELSE "shared"

\* one turn of `for n in sorted(names)`
SelectProject ==
    /\ cpc = "select"
    /\ LET n == names[name_idx]
           branch == select_project(n, analysis_one, analysis_two)
       IN IF branch = "absent"
          THEN /\ console' = Append(console, Item("warning", n, << "not present in both" >>))
               /\ UNCHANGED shared_projects
          ELSE IF branch = "different"
          THEN /\ console' = Append(console, Item("warning", n, << "configured differently" >>))
               /\ UNCHANGED shared_projects
          ELSE /\ shared_projects' = Append(shared_projects,
                       << DictGet(analysis_one.projects, n),
                          DictGet(analysis_one.results, n),
                          DictGet(analysis_two.results, n) >>)
               /\ UNCHANGED console
    /\ name_idx' = name_idx + 1
    /\ cpc' = IF name_idx = Len(names) THEN "summary" ELSE "select"
    /\ UNCHANGED << cargs, analysis_one, analysis_two, names, cexit, cerror >>
    /\ UNCHANGED << avars, pvars, call_args, call_out, cache_dir, procs >>

\* panel = make_comparison_summary(...); console.print(panel)
Summarize ==
    /\ cpc = "summary"
    /\ \E panel \in { make_comparison_summary(
                          [i \in 1..Len(shared_projects) |->
                             << shared_projects[i][2], shared_projects[i][3] >>]) } :
          IF panel.raised # None
          THEN /\ cerror' = panel.raised
               /\ cexit' = 1
               /\ cpc' = "done"
               /\ UNCHANGED console
          ELSE /\ console' = Append(console, Item("summary", "",
                       << panel.differing_projects, panel.differing_files, panel.additions,
                          panel.deletions, panel.lines, panel.files, panel.projects >>))
               /\ cpc' = "report"
               /\ UNCHANGED << cexit, cerror >>
    /\ UNCHANGED << cargs, analysis_one, analysis_two, names, name_idx, shared_projects >>
    /\ UNCHANGED << avars, pvars, call_args, call_out, cache_dir, procs >>

\* compare_project_pair(project, results, results2): what it prints
compare_project_pair(project, rs, results2) ==
    LET fsq == DifferingFiles(rs, results2)
    IN IF fsq = << >> THEN << >>
       ELSE << Item("header", project.name, << project.url >>),
               Item("revision", project.name, << project.commit >>) >>
            \o [k \in 1..Len(fsq) |->
                  Item("diff", project.name,
                       diff_two_results(DictGet(rs, fsq[k]), DictGet(results2, fsq[k]),
                                        << project.name, ":", fsq[k] >>, TRUE).diff)]

RECURSIVE print_pairs(_)
\* the --diff loop over shared_projects
print_pairs(shared) ==
    IF shared = << >> THEN << >>
    ELSE compare_project_pair(shared[1][1], shared[1][2], shared[1][3])
         \o print_pairs(Tail(shared))

exit_status_always_zero(check) == 0

\* sys.exit(1 if check else 0)
exit_status(check) == IF check THEN 1 ELSE 0

\* the rest of compare: the all() test, the output format, the exit
Report ==
    /\ cpc = "report"
    /\ IF \A i \in 1..Len(shared_projects) :
             DictEq(shared_projects[i][2], shared_projects[i][3])
       THEN /\ console' = Append(console, Item("print", "", << "Nothing-changed." >>))
            /\ cexit' = 0
            /\ UNCHANGED cerror
       ELSE IF cargs.format = "diff"
       THEN IF \E i \in 1..Len(shared_projects) :
                  LookupFails(shared_projects[i][2], shared_projects[i][3])
            THEN /\ cerror' = "KeyError"
                 /\ cexit' = 1
                 /\ UNCHANGED console
            ELSE /\ console' = console \o print_pairs(shared_projects)
                 /\ cexit' = exit_status(cargs.check)
                 /\ UNCHANGED cerror
       ELSE IF cargs.format = "list"
       THEN /\ console' = Append(console, Item("print", "", << "--list is not implemented yet" >>))
            /\ cexit' = 1
            /\ UNCHANGED cerror
       ELSE /\ console' = Append(console, Item("print", "", << "Differences found." >>))
            /\ cexit' = exit_status(cargs.check)
            /\ UNCHANGED cerror
    /\ cpc' = "done"
    /\ UNCHANGED << cargs, analysis_one, analysis_two, names, name_idx, shared_projects >>
    /\ UNCHANGED << avars, pvars, call_args, call_out, cache_dir, procs >>

NextCompare ==
    \/ CompareLoadFirst
    \/ CompareLoadSecond
    \/ SelectProject
    \/ Summarize
    \/ Report

(***************************************************************************)
(* Functions called on their own                                           *)
(***************************************************************************)
\* lines a text given to the diff functions may have
MaxLines == 2
MaxCandidates == 3

\* show-failed: how the command ends.  exit is the process's exit status:
\* 2 for a DSError (entrypoint), 1 for any other exception, sys.exit(bool)
\* with --check, 0 when the function returns.
show_failed(loaded, key, show_log, check, check_allow) ==
    LET \* the failed files of the projects that are not skipped, as
        \* [project, file, result]
        failed ==
            UNION { { [project |-> loaded.results[i].key,
                       file |-> loaded.results[i].value[k].key,
                       result |-> loaded.results[i].value[k].value] :
                        k \in { n \in 1..Len(loaded.results[i].value) :
                                  loaded.results[i].value[n].value.type = "failed" } } :
                    i \in { j \in 1..Len(loaded.results) :
                              key = None \/ key = loaded.results[j].key } }
        disallowed_failures ==
            Cardinality({ x \in failed : << x.project, ":", x.file >> \notin check_allow })
    IN IF key # None /\ ~DictHas(loaded.projects, key)
       THEN [raised |-> "DSError: The project couldn't be found.", exit |-> 2]
       ELSE IF show_log /\ \E x \in failed : x.result.log = PyNone
       THEN \* result.log or result.traceback: FailedResult has no traceback
            [raised |-> "AttributeError", exit |-> 1]
       ELSE [raised |-> None,
             exit |-> IF check /\ disallowed_failures > 0 THEN 1 ELSE 0]

IdleCalls ==
    /\ call_args = [fn |-> "none"]
    /\ call_out = << >>

\* the arguments: file results of the three kinds over texts of up to
\* MaxLines lines "a" or "b", the last line with or without its newline
InitCalls ==
    LET DiffTexts ==
            { join([i \in 1..Len(ls) |->
                      IF i = Len(ls) /\ ~nl THEN << ls[i] >> ELSE << ls[i], NL >>]) :
                ls \in UNION { [1..n -> {"a", "b"}] : n \in 0..MaxLines }, nl \in BOOLEAN }
        MarkedTexts ==
            { join([i \in 1..Len(ls) |->
                      IF i = Len(ls) /\ ~nl THEN ls[i] ELSE ls[i] \o << NL >>]) :
                ls \in UNION { [1..n -> { << "a" >>, << "+", "+" >>, << "-", "-", "b" >> }] :
                               n \in 0..MaxLines },
                nl \in BOOLEAN }
        DiffResults ==
            { NothingChangedResult(t, UNSET_COUNT) : t \in DiffTexts }
            \cup { ReformattedResult(<< "b", "a", NL >>, t, UNSET_COUNT, UNSET_CHANGES) :
                     t \in DiffTexts }
            \cup { FileResults(k) : k \in {"failed", "failed_log"} }
            \cup { ReformattedResult(<< "b", NL >>, << "a", NL >>, UNSET_COUNT, UNSET_CHANGES),
                   FailedResult(Texts("e"), FileResults("failed").error,
                                FileResults("failed").message, PyNone, UNSET_COUNT),
                   FailedResult(Texts("a"), FileResults("failed").error,
                                FileResults("failed").message, PyStr("log"), UNSET_COUNT) }
    IN
    /\ call_args \in
         { [fn |-> "diff_two_results", r1 |-> x, r2 |-> y, file |-> "1.py",
            diff_failure |-> d] : x \in DiffResults, y \in DiffResults, d \in BOOLEAN }
         \cup { [fn |-> "unified_diff", a |-> x, b |-> y] :
                  x \in DiffTexts, y \in DiffTexts }
         \cup { [fn |-> "show_failed", loaded |-> SampleAnalysis(kinds, DataFormat(13)),
                 key |-> normalize_input(k), show_log |-> l, check |-> c,
                 check_allow |-> allow] :
                  kinds \in { << << "nothing", "reformatted" >> >>,
                              << << "reformatted" >>, << "failed", "failed_log" >> >>,
                              << << "nothing", "failed_log" >>, << "failed_log" >> >> },
                  k \in {None, "P1", "zz"}, l \in BOOLEAN, c \in BOOLEAN,
                  allow \in { {}, { << "p2", ":", "f1" >> },
                              { << "p1", ":", "f2" >>, << "p2", ":", "f1" >> },
                              { << "p2", ":", "f1" >>, << "p2", ":", "f2" >> } } }
         \cup { [fn |-> "ReformattedResult", src |-> x, dst |-> y] :
                  x \in MarkedTexts, y \in MarkedTexts }
         \cup { [fn |-> "get_project_files_and_mode", shim_calls |-> c] :
                  c \in { << >> } \cup
                    { << s >> : s \in
                        { s \in UNION { [1..n -> { [path |-> 1, suffix |-> ".py"],
                                                    [path |-> 2, suffix |-> ".ipynb"],
                                                    [path |-> 3, suffix |-> ".pyi"] }] :
                                         n \in 0..MaxLines + 1 } :
                            \A i, j \in 1..Len(s) : i # j => s[i] # s[j] } } }
         \cup { [fn |-> "analyze", projects |-> ps, exclude |-> ex, select |-> sel] :
                  ps \in UNION { { [i \in 1..n |->
                                      Project(<< "p", i >>, "https://example.org/", PyList(<< >>),
                                              reqs[i], PyNone)] :
                                    reqs \in [1..n -> {PyNone, PyStr(">=3.6"),
                                                        PyStr(">=5.0.0")}] } :
                                  n \in 0..MaxCandidates },
                  ex \in { {}, { << "p", 1 >> } },
                  sel \in { {}, { << "p", 2 >>, << "p", 3 >> } } }
         \cup { [fn |-> "get_overall_result",
                 results |-> [i \in 1..Len(kinds) |-> FileResults(kinds[i])]] :
                  kinds \in UNION { [1..n -> {"nothing", "reformatted", "failed"}] :
                                      n \in 0..MaxLines } }
    /\ call_out = << >>

\* diff_two_results(r1, r2, file, diff_failure) and, when swapped, the same
\* call with the two results exchanged
DiffTwoResults ==
    /\ call_args.fn = "diff_two_results"
    /\ \E swapped \in BOOLEAN \ DOMAIN call_out :
         call_out' =
           (swapped :> diff_two_results(IF swapped THEN call_args.r2 ELSE call_args.r1,
                                        IF swapped THEN call_args.r1 ELSE call_args.r2,
                                        call_args.file, call_args.diff_failure))
           @@ call_out
    /\ UNCHANGED << avars, pvars, cvars, call_args, cache_dir, procs >>

\* unified_diff(a, b, "a", "b")
UnifiedDiff ==
    /\ call_args.fn = "unified_diff"
    /\ call_out = << >>
    /\ call_out' = (FALSE :> unified_diff(call_args.a, call_args.b, "a", "b"))
    /\ UNCHANGED << avars, pvars, cvars, call_args, cache_dir, procs >>

\* diff-shades show-failed analysis [project] [--show-log] [--check]
\* [--check-allow project:file]...
ShowFailed ==
    /\ call_args.fn = "show_failed"
    /\ call_out = << >>
    /\ call_out' = (FALSE :> show_failed(call_args.loaded, call_args.key, call_args.show_log,
                                         call_args.check, call_args.check_allow))
    /\ UNCHANGED << avars, pvars, cvars, call_args, cache_dir, procs >>

\* get_overall_result(results) as results.py defines it (ProjectResults'
\* overall_result) and as analysis.py defines it (analyze_projects)
GetOverallResult ==
    /\ call_args.fn = "get_overall_result"
    /\ call_out = << >>
    /\ call_out' = (FALSE :> [results_py |-> get_overall_result(call_args.results),
                              analysis_py |-> analysis_get_overall_result(call_args.results)])
    /\ UNCHANGED << avars, pvars, cvars, call_args, cache_dir, procs >>

\* ReformattedResult(src, dst) and NothingChangedResult(dst) with their
\* derived fields, and the line count of a ProjectResults holding the two
FileResultPostInit ==
    /\ call_args.fn = "ReformattedResult"
    /\ call_out = << >>
    /\ \E r \in { ReformattedResult(call_args.src, call_args.dst,
                                     UNSET_COUNT, UNSET_CHANGES) } :
       \E n \in { NothingChangedResult(call_args.dst, UNSET_COUNT) } :
         call_out' = (FALSE :> [reformatted |-> r, nothing_changed |-> n,
                                line_count |-> project_line_count(
                                    << Entry("f1", r), Entry("f2", n) >>)])
    /\ UNCHANGED << avars, pvars, cvars, call_args, cache_dir, procs >>

\* get_project_files_and_mode(project, path)
GetProjectFilesAndMode ==
    /\ call_args.fn = "get_project_files_and_mode"
    /\ call_out = << >>
    /\ call_out' = (FALSE :> get_project_files_and_mode(call_args.shim_calls))
    /\ UNCHANGED << avars, pvars, cvars, call_args, cache_dir, procs >>

\* analyze from the choice of the candidate projects up to the call of
\* setup_projects
FilterProjects ==
    /\ call_args.fn = "analyze"
    /\ call_out = << >>
    /\ call_out' = (FALSE :> filter_projects(call_args.projects, call_args.exclude,
                                             call_args.select))
    /\ UNCHANGED << avars, pvars, cvars, call_args, cache_dir, procs >>

NextCalls ==
    \/ FileResultPostInit
    \/ FilterProjects
    \/ GetProjectFilesAndMode
    \/ DiffTwoResults
    \/ UnifiedDiff
    \/ ShowFailed
    \/ GetOverallResult

(***************************************************************************)
(* results.py : load_analysis in two processes at once                     *)
(*                                                                         *)
(* Each process makes one call.  The entries of CACHE_DIR are numbered:    *)
(* 1..CACHE_MAX_ENTRIES are entries of other files, the entry of the file  *)
(* given to a call is its `key`.  Every system call is one step.           *)
(***************************************************************************)
\* two processes are about to call load_analysis, each on one of two files;
\* CACHE_DIR holds what earlier calls left: CACHE_MAX_ENTRIES entries, the
\* least recently read of them possibly the entry of the first file
StartShared ==
    /\ \E cached \in BOOLEAN :
         cache_dir = [e \in 1..CACHE_MAX_ENTRIES + 2 |->
                        [present |-> IF e = CACHE_MAX_ENTRIES + 1 THEN cached
                                     ELSE IF e = 1 THEN ~cached
                                     ELSE e <= CACHE_MAX_ENTRIES,
                         full |-> TRUE, open_by |-> {},
                         atime |-> IF e = CACHE_MAX_ENTRIES + 1 THEN 0 ELSE e]]
    /\ procs \in [{"first", "second"} ->
                    { [pc |-> "exists", key |-> CACHE_MAX_ENTRIES + f, entries |-> {},
                       by_oldest |-> << >>, result |-> None] : f \in 1..2 }]
    /\ IdleAnalyze /\ IdlePersist /\ IdleCompare /\ IdleCalls

\* if cache_path.exists():
LookUp(p) ==
    /\ procs[p].pc = "exists"
    /\ procs' = [procs EXCEPT ![p].pc = IF cache_dir[procs[p].key].present THEN "read"
                                        ELSE "iterdir"]
    /\ UNCHANGED << avars, pvars, cvars, call_args, call_out, cache_dir >>

\* try: analysis = pickle.loads(cache_path.read_bytes())
\* except Exception: cache_path.unlink()
\* else: return analysis, True
\* (a pickle that is not written to its end does not load; then the file is
\* read and parsed, which changes nothing in CACHE_DIR)
ReadEntry(p) ==
    LET entry == cache_dir[procs[p].key] IN
    \/ /\ procs[p].pc = "read"
       /\ procs' = [procs EXCEPT ![p].pc = IF entry.present /\ entry.full THEN "returned"
                                           ELSE "unlink",
                                 ![p].result = IF entry.present /\ entry.full THEN "hit"
                                               ELSE None]
       /\ UNCHANGED cache_dir
       /\ UNCHANGED << avars, pvars, cvars, call_args, call_out >>
    \/ /\ procs[p].pc = "unlink"
       /\ IF entry.present
          THEN /\ cache_dir' = [cache_dir EXCEPT ![procs[p].key].present = FALSE,
                                                 ![procs[p].key].open_by = {}]
               /\ procs' = [procs EXCEPT ![p].pc = "iterdir"]
          ELSE /\ procs' = [procs EXCEPT ![p].pc = "raised",
                                         ![p].result = "FileNotFoundError"]
               /\ UNCHANGED cache_dir
       /\ UNCHANGED << avars, pvars, cvars, call_args, call_out >>

\* clear_cache(ensure_room=True): CACHE_DIR.iterdir(), entry.stat() of what
\* it listed, then unlink() of the oldest entries one by one (no entry is
\* older than the cutoff here)
ClearCache(p) ==
    \/ /\ procs[p].pc = "iterdir"
       /\ procs' = [procs EXCEPT ![p].pc = "stat",
                                 ![p].entries = {e \in DOMAIN cache_dir : cache_dir[e].present}]
       /\ UNCHANGED cache_dir
       /\ UNCHANGED << avars, pvars, cvars, call_args, call_out >>
    \/ /\ procs[p].pc = "stat"
       /\ IF \E e \in procs[p].entries : ~cache_dir[e].present
          THEN procs' = [procs EXCEPT ![p].pc = "raised", ![p].result = "FileNotFoundError"]
          ELSE procs' = [procs EXCEPT ![p].pc = "evict",
                            ![p].by_oldest =
                               SortSeq(SelectSeq([e \in DOMAIN cache_dir |-> e],
                                                 LAMBDA e : e \in procs[p].entries),
                                       LAMBDA d, e : cache_dir[d].atime < cache_dir[e].atime)]
       /\ UNCHANGED cache_dir
       /\ UNCHANGED << avars, pvars, cvars, call_args, call_out >>
    \/ /\ procs[p].pc = "evict"
       /\ IF Len(procs[p].by_oldest) > CACHE_MAX_ENTRIES - 1
          THEN IF cache_dir[procs[p].by_oldest[1]].present
               THEN /\ cache_dir' = [cache_dir EXCEPT ![procs[p].by_oldest[1]].present = FALSE,
                                                      ![procs[p].by_oldest[1]].open_by = {}]
                    /\ procs' = [procs EXCEPT ![p].by_oldest = Tail(@)]
               ELSE /\ procs' = [procs EXCEPT ![p].pc = "raised",
                                              ![p].result = "FileNotFoundError"]
                    /\ UNCHANGED cache_dir
          ELSE /\ procs' = [procs EXCEPT ![p].pc = "open"]
               /\ UNCHANGED cache_dir
       /\ UNCHANGED << avars, pvars, cvars, call_args, call_out >>

\* cache_path.write_bytes(...): open(cache_path, "wb") creates or truncates
\* the file, write() and close() complete it - unless the name was unlinked
\* in between, when the bytes go to a file that has no name any more
WriteBytes(p) ==
    LET key == procs[p].key IN
    \/ /\ procs[p].pc = "open"
       /\ cache_dir' = [cache_dir EXCEPT ![key].present = TRUE, ![key].full = FALSE,
                                          ![key].open_by = @ \cup {p}, ![key].atime = key]
       /\ procs' = [procs EXCEPT ![p].pc = "write"]
       /\ UNCHANGED << avars, pvars, cvars, call_args, call_out >>
    \/ /\ procs[p].pc = "write"
       /\ cache_dir' = IF p \in cache_dir[key].open_by
                       THEN [cache_dir EXCEPT ![key].full = TRUE, ![key].open_by = @ \ {p}]
                       ELSE cache_dir
       /\ procs' = [procs EXCEPT ![p].pc = "returned", ![p].result = "miss"]
       /\ UNCHANGED << avars, pvars, cvars, call_args, call_out >>

NextShared ==
    \/ \E p \in DOMAIN procs : LookUp(p)
    \/ \E p \in DOMAIN procs : ReadEntry(p)
    \/ \E p \in DOMAIN procs : ClearCache(p)
    \/ \E p \in DOMAIN procs : WriteBytes(p)

\* each specification starts one area and leaves the others idle
StartAnalyze == InitAnalyze /\ IdlePersist /\ IdleCompare /\ IdleCalls
    /\ cache_dir = << >> /\ procs = << >>

StartRoundTrip == InitRoundTrip /\ IdleAnalyze /\ IdleCompare /\ IdleCalls
    /\ cache_dir = << >> /\ procs = << >>

StartCache == InitCache /\ IdleAnalyze /\ IdleCompare /\ IdleCalls
    /\ cache_dir = << >> /\ procs = << >>

StartCompare == InitCompare /\ IdleAnalyze /\ IdleCalls
    /\ cache_dir = << >> /\ procs = << >>

StartCalls == InitCalls /\ IdleAnalyze /\ IdlePersist /\ IdleCompare
    /\ cache_dir = << >> /\ procs = << >>

SpecCalls == StartCalls /\ [][NextCalls]_vars

SpecAnalyze == StartAnalyze /\ [][NextAnalyze]_vars

SpecRoundTrip == StartRoundTrip /\ [][NextRoundTrip]_vars

SpecCache == StartCache /\ [][NextCache]_vars

SpecCompare == StartCompare /\ [][NextCompare]_vars

SpecShared == StartShared /\ [][NextShared]_vars

(***************************************************************************)
(* Claims about analyze_projects, check_file and the rollup                *)
(***************************************************************************)
AnyOfType(rs, t) == \E i \in 1..Len(rs) : rs[i].type = t

\* the rollup a non-empty collection must get
RollupIs(rs, v) ==
    /\ v \in ResultTypes
    /\ (v = "failed") <=> AnyOfType(rs, "failed")
    /\ ~AnyOfType(rs, "failed") => ((v = "reformatted") <=> AnyOfType(rs, "reformatted"))
    /\ (~AnyOfType(rs, "failed") /\ ~AnyOfType(rs, "reformatted")) => v = "nothing-changed"

\* C1: for every non-empty collection of file results the rollup is "failed"
\* iff an entry is failed, otherwise "reformatted" iff an entry is
\* reformatted, otherwise "nothing-changed"; this holds of the result that
\* analyze_projects logs and of ProjectResults.overall_result.
C1_Rollup ==
    /\ \A i \in 1..Len(results) :
         Len(results[i].value) > 0 =>
           /\ DictHas(overall, results[i].key)
           /\ RollupIs(DictValues(results[i].value), DictGet(overall, results[i].key))
    /\ apc = "summarized" =>
         \A i \in 1..Len(results) :
           Len(results[i].value) > 0 =>
             /\ DictHas(rollup, results[i].key)
             /\ RollupIs(DictValues(results[i].value), DictGet(rollup, results[i].key))

\* a summarized run with a project holding a failed and a reformatted entry,
\* and one with only unchanged entries
C1_Witness ==
    /\ apc = "summarized"
    /\ \E i \in 1..Len(results) :
         /\ AnyOfType(DictValues(results[i].value), "failed")
         /\ AnyOfType(DictValues(results[i].value), "reformatted")
         /\ DictGet(rollup, results[i].key) = "failed"
    /\ \E i \in 1..Len(results) :
         /\ Len(results[i].value) > 1
         /\ DictGet(rollup, results[i].key) = "nothing-changed"

ExpectedKeys(files) == [i \in 1..Len(files) |-> files[i].rel]

ProjectIndex(name) == CHOOSE i \in 1..Len(prepared) : prepared[i].name = name

\* C10: the key order of each project's results equals the order of its
\* sorted file list whatever order the workers finish in, and every file is
\* there exactly once, in its own project's mapping, under its relative path.
C10_SubmissionOrder ==
    /\ \A i \in 1..Len(results) :
         LET files == files_and_modes[ProjectIndex(results[i].key)]
             d == results[i].value
         IN /\ DictKeys(d) = ExpectedKeys(files)
            /\ \A j \in 1..Len(d) : d[j].value.src = ReadText(files[j])
    /\ apc = "imap" =>
         DictKeys(file_results) =
           SubSeq(ExpectedKeys(files_and_modes[proj_idx]), 1, Len(file_results))
    /\ apc \in {"done", "saved", "summarized"} =>
         DictKeys(results) = [i \in 1..Len(prepared) |-> prepared[i].name]

\* a finished run in which a later file was checked before an earlier one
C10_Witness ==
    /\ apc = "done"
    /\ out_of_order
    /\ \E i \in 1..Len(results) : Len(results[i].value) >= 2

C17_NoPartialWrite ==
    /\ [](apc \in {"setup", "loop", "imap", "done"} => results_file.kind # "written")
    /\ [][results_file' # results_file =>
            /\ apc = "done"
            /\ Len(prepared) = Len(selected_projects)
            /\ DictKeys(results) = [i \in 1..Len(selected_projects) |->
                                      selected_projects[i].name]
            /\ \A i \in 1..Len(results) :
                 DictKeys(results[i].value) = ExpectedKeys(files_and_modes[i])]_vars
    /\ [][(apc' = "crashed" /\ apc \in {"setup", "loop", "imap", "crashed"}) =>
            (results_file' = results_file /\ results_file.kind # "written")]_vars

\* git failed for the second project, after the first was set up, with an
\* older results file in place
C17_Witness ==
    /\ apc = "crashed"
    /\ aerror = "CalledProcessError"
    /\ Len(prepared) = 1
    /\ results_file = [kind |-> "old"]

\* C18: setup_projects reuses the checkout, without clone_repo, exactly when
\* the target directory exists and no commit is pinned or its HEAD is the
\* pinned commit; otherwise it calls clone_repo; either way the Project it
\* returns carries the HEAD commit of the working copy.
C18_ReuseCheckout ==
    /\ \A i \in 1..Len(setup_log) :
         LET e == setup_log[i] IN
         /\ e.did \in {"reuse", "clone"}
         /\ (e.did = "reuse") <=>
              (e.target # "absent" /\ (e.commit = PyNone \/ e.commit = PyStr(e.target)))
    /\ \A i \in 1..Len(prepared) :
         /\ prepared[i].commit = PyStr(work_dir[prepared[i].name])
         /\ prepared[i].commit = PyStr(setup_log[i].head)
         /\ [prepared[i] EXCEPT !.commit = selected_projects[i].commit] = selected_projects[i]

\* a checkout at another commit than the pinned one was cloned over and the
\* checkout of a project without a pinned commit was reused
C18_Witness ==
    /\ Len(prepared) = 2
    /\ \E i, j \in 1..2 :
         /\ setup_log[i].did = "clone" /\ setup_log[i].target = "c0"
         /\ setup_log[i].commit = PyStr("c1")
         /\ setup_log[j].did = "reuse" /\ setup_log[j].commit = PyNone

\* C11: diff_two_results raises ValueError("Cannot diff failing file
\* results.") whenever at least one of the two results is failed and
\* diff_failure is false, whatever the kinds of the two; it never raises for
\* two results neither of which is failed.
C11_RaisesOnFailed ==
    call_args.fn = "diff_two_results" =>
      \A swapped \in DOMAIN call_out :
        /\ ("failed" \in {call_args.r1.type, call_args.r2.type} /\ ~call_args.diff_failure)
             => call_out[swapped].raised = "ValueError: Cannot diff failing file results."
        /\ "failed" \notin {call_args.r1.type, call_args.r2.type}
             => call_out[swapped].raised = None
        /\ call_out[swapped].raised \in
             {None, "ValueError: Cannot diff failing file results."}

\* a reformatted result was diffed against a failed one, and the failed
\* one against it, without diff_failure
C11_Witness ==
    /\ call_args.fn = "diff_two_results"
    /\ DOMAIN call_out = BOOLEAN
    /\ call_args.r1.type = "reformatted"
    /\ call_args.r2.type = "failed"
    /\ ~call_args.diff_failure
    /\ call_out[TRUE].raised # None

\* C12: with diff_failure=True and a failed result on either side, the texts
\* diffed are "[<error>: <message>]" for a failed result and "[no crash]"
\* for the other, so a non-failed result against a failed one gives
\* "-[no crash]" followed by "+[<error>: <message>]"; with no failed
\* result the texts diffed are dst for a reformatted result and src for a
\* nothing-changed one.  (A diff turns its "-" and " " lines back into the
\* first text and its "+" and " " lines into the second.)
C12_DisplayTexts ==
    call_args.fn = "diff_two_results" =>
      \A swapped \in DOMAIN call_out :
        LET x == IF swapped THEN call_args.r2 ELSE call_args.r1
            y == IF swapped THEN call_args.r1 ELSE call_args.r2
            out == call_out[swapped]
            lines == splitlines_keepends(out.diff)
            body == SubSeq(lines, 4, Len(lines))
            side(marks) ==
                LET kept == SelectSeq(body, LAMBDA l : l[1] \in marks)
                IN join([i \in 1..Len(kept) |-> Tail(kept[i])])
            complete(t) == IF t = << >> \/ t[Len(t)] = NL THEN t ELSE t \o << NL >>
            crash(r) == << "[" >> \o r.error \o << ":", " " >> \o r.message \o << "]", NL >>
            display(r) ==
                IF "failed" \in {x.type, y.type}
                THEN (IF r.type = "failed" THEN crash(r) ELSE << "[no crash]", NL >>)
                ELSE (IF r.type = "reformatted" THEN r.dst ELSE r.src)
        IN out.raised = None =>
             /\ (out.diff = << >>) <=> (display(x) = display(y))
             /\ out.diff # << >> =>
                  /\ side({"-", " "}) = complete(display(x))
                  /\ side({"+", " "}) = complete(display(y))
             /\ (x.type # "failed" /\ y.type = "failed") =>
                  body = << << "-", "[no crash]", NL >>, << "+" >> \o crash(y) >>

\* a nothing-changed result was diffed against a failed one with
\* diff_failure
C12_Witness ==
    /\ call_args.fn = "diff_two_results"
    /\ FALSE \in DOMAIN call_out
    /\ call_out[FALSE].raised = None
    /\ call_out[FALSE].diff # << >>
    /\ call_args.r1.type = "nothing-changed"
    /\ call_args.r2.type = "failed"

\* C14: diff_two_results(a, a, file) is the empty string for every result a
\* that is not failed, and unified_diff(t, t, ...) is empty for every text t.
C14_SelfDiffEmpty ==
    /\ (call_args.fn = "diff_two_results" /\ call_args.r1 = call_args.r2
          /\ call_args.r1.type # "failed") =>
         \A swapped \in DOMAIN call_out :
            call_out[swapped] = [raised |-> None, diff |-> << >>]
    /\ (call_args.fn = "unified_diff" /\ call_args.a = call_args.b) =>
         \A k \in DOMAIN call_out : call_out[k] = << >>

\* a reformatted result whose output has two lines, the last without a
\* newline, was diffed against itself
C14_Witness ==
    /\ call_args.fn = "diff_two_results"
    /\ call_args.r1 = call_args.r2
    /\ call_args.r1.type = "reformatted"
    /\ Len(call_args.r1.dst) = 3
    /\ FALSE \in DOMAIN call_out

\* the lines of a diff after its three header lines that begin with one of
\* the marks, without the mark
MarkedLines(diff, marks) ==
    LET lines == splitlines_keepends(diff)
        kept == SelectSeq(SubSeq(lines, 4, Len(lines)), LAMBDA l : l[1] \in marks)
    IN [i \in 1..Len(kept) |-> Tail(kept[i])]

\* the lines of the text diff_two_results diffs for a result that is not failed
OutcomeLines(r) == splitlines_keepends(IF r.type = "reformatted" THEN r.dst ELSE r.src)

\* both orders of a pair of results that are not failed were diffed
BothOrdersDiffed ==
    /\ call_args.fn = "diff_two_results"
    /\ "failed" \notin {call_args.r1.type, call_args.r2.type}
    /\ DOMAIN call_out = BOOLEAN

\* C13 as stated: for every pair of results a, b neither of which is failed,
\* swapping the "+" and "-" line markers of diff_two_results(b, a, file)
\* gives diff_two_results(a, b, file).  (The two file header lines are left
\* as they are.)
C13_SwappedMarkers ==
    BothOrdersDiffed =>
      LET lines == splitlines_keepends(call_out[TRUE].diff)
          swap(l) == IF l[1] = "+" THEN << "-" >> \o Tail(l)
                     ELSE IF l[1] = "-" THEN << "+" >> \o Tail(l)
                     ELSE l
      IN call_out[FALSE].diff =
           join([i \in 1..Len(lines) |-> IF i <= 2 THEN lines[i] ELSE swap(lines[i])])

\* C13 (amended): for every pair of results a, b neither of which is failed,
\* diff_two_results(a, b, file) is empty exactly when
\* diff_two_results(b, a, file) is, and when the two texts have no line in
\* common the lines one diff removes are the lines the other adds, in the
\* same order.
C13_InverseLines ==
    BothOrdersDiffed =>
      /\ call_out[FALSE].raised = None /\ call_out[TRUE].raised = None
      /\ (call_out[FALSE].diff = << >>) <=> (call_out[TRUE].diff = << >>)
      /\ (\A i \in 1..Len(OutcomeLines(call_args.r1)) :
            \A j \in 1..Len(OutcomeLines(call_args.r2)) :
               OutcomeLines(call_args.r1)[i] # OutcomeLines(call_args.r2)[j]) =>
           /\ MarkedLines(call_out[FALSE].diff, {"-"}) = MarkedLines(call_out[TRUE].diff, {"+"})
           /\ MarkedLines(call_out[FALSE].diff, {"+"}) = MarkedLines(call_out[TRUE].diff, {"-"})

\* two lines "a" were replaced by a line "b" without a newline, and back
C13_Witness ==
    /\ BothOrdersDiffed
    /\ MarkedLines(call_out[FALSE].diff, {"-"}) = << << "a", NL >>, << "a", NL >> >>
    /\ MarkedLines(call_out[FALSE].diff, {"+"}) = << << "b", NL >> >>
    /\ MarkedLines(call_out[FALSE].diff, {"\\"}) # << >>
    /\ call_out[TRUE].diff # << >>

\* C15: the summary of a comparison counts a project as differing iff its
\* two ProjectResults are unequal, counts every file whose two results are
\* unequal, and adds up the added and the removed lines of exactly the
\* differing files neither of whose results is failed; a differing file
\* with a failed result counts as a file and adds no lines.
C15_SummaryCounts ==
    \A n \in 1..Len(console) :
      console[n].kind = "summary" =>
        LET one(i) == shared_projects[i][2]
            two(i) == shared_projects[i][3]
            \* 1 when the k-th file of pair i has two unequal results
            differs(i, k) ==
                IF DictHas(two(i), one(i)[k].key)
                THEN (IF one(i)[k].value # DictGet(two(i), one(i)[k].key) THEN 1 ELSE 0)
                ELSE 0
            marked(i, k, mark) ==
                IF differs(i, k) = 1
                   /\ "failed" \notin {one(i)[k].value.type,
                                       DictGet(two(i), one(i)[k].key).type}
                THEN Len(MarkedLines(diff_two_results(one(i)[k].value,
                                                      DictGet(two(i), one(i)[k].key),
                                                      "f", FALSE).diff, {mark}))
                ELSE 0
            total(count(_, _)) ==
                SumSeq([i \in 1..Len(shared_projects) |->
                          SumSeq([k \in 1..Len(one(i)) |-> count(i, k)])])
        IN SubSeq(console[n].text, 1, 4) =
             << Cardinality({ i \in 1..Len(shared_projects) : ~DictEq(one(i), two(i)) }),
                total(differs),
                total(LAMBDA i, k : marked(i, k, "+")),
                total(LAMBDA i, k : marked(i, k, "-")) >>

\* two projects differ: one by a file reformatted differently (one line
\* more), one by a file that failed differently
C15_Witness ==
    \E n \in 1..Len(console) :
      /\ console[n].kind = "summary"
      /\ SubSeq(console[n].text, 1, 4) = << 2, 2, 1, 0 >>

\* what load_analysis made of the archive at a .zip path: the last call
\* loaded it, and the archive is as it was then
ZipLoaded == last.op = "load" /\ last.path.suffix = ".zip" /\ fs[last.path].exists

\* load_analysis of a .zip path behaved as the claim says: more than one
\* member gives the DSError and no Analysis; one member gives what the
\* plain JSON file with the member's content gives
ZipLoadAsClaimed ==
    IF Len(fs[last.path].members) > 1
    THEN /\ last.status = "DSError: contains more than one member"
         /\ last.status # "FileNotFoundError"
         /\ last.analysis = NoAnalysis
    ELSE \E json \in { load_analysis_contents(json_loads(fs[last.path].members[1].blob)) } :
           /\ last.status = json.status
           /\ last.status = "ok" => AnalysisEq(last.analysis, json.analysis)

\* C19 as stated: loading a .zip path whose archive has more than one member
\* fails with the DSError "contains more than one member", which is not the
\* error of a missing file, and returns no Analysis; an archive with one
\* member loads to the Analysis the plain JSON file with the same content
\* loads to.
C19_ZipMembersAlways == ZipLoaded => ZipLoadAsClaimed

\* C19 (amended): the same, for a load that parses the archive or is answered
\* from the cache entry made from the archive as save_analysis last wrote it.
C19_ZipMembers == (ZipLoaded /\ (last.cached => last.fresh)) => ZipLoadAsClaimed

\* an archive that loaded with one member got a second one and the load
\* then failed, the first load's cache entry still being there
C19_Witness ==
    /\ ZipLoaded
    /\ Len(fs[last.path].members) = 2
    /\ last.status = "DSError: contains more than one member"
    /\ \E e \in cache : e.by_load /\ e.seen.path = last.path

\* C20: for a project key that is in the analysis (or none), show-failed
\* with --check exits 1 iff some failed file of the selected projects is not
\* named as "project:file" in --check-allow, and 0 when every failed file
\* is allowed or none failed; without --check it exits 0.
C20_ShowFailedExit ==
    (/\ call_args.fn = "show_failed"
     /\ call_out # << >>
     /\ (call_args.key = None \/ DictHas(call_args.loaded.projects, call_args.key))) =>
      LET rs == call_args.loaded.results
          unallowed ==
              \E i \in 1..Len(rs) : \E k \in 1..Len(rs[i].value) :
                 /\ call_args.key \in {None, rs[i].key}
                 /\ rs[i].value[k].value.type = "failed"
                 /\ << rs[i].key, ":", rs[i].value[k].key >> \notin call_args.check_allow
      IN call_out[FALSE].exit = IF call_args.check /\ unallowed THEN 1 ELSE 0

\* the same, for runs without --show-log
C20_ShowFailedExitNoLog ==
    (call_args.fn = "show_failed" /\ call_args.show_log) \/ C20_ShowFailedExit

(***************************************************************************)
(* Claims about save_analysis and load_analysis                            *)
(***************************************************************************)
Returned == last.op = "load" /\ last.status # "FileNotFoundError"

HasUnderscore(k) == \E i \in 1..Len(k) : k[i] = "_"

\* x.metadata survives JSON: no key is respelled by the loader, no value is
\* a tuple, and "data-format" is a number of the supported range
PlainMetadata(x) ==
    /\ \A i \in 1..Len(x.metadata) :
         /\ ~HasUnderscore(x.metadata[i].key)
         /\ x.metadata[i].value.py # "tuple"
    /\ \E i \in 1..Len(x.metadata) :
         /\ x.metadata[i].key = DATA_FORMAT_KEY
         /\ x.metadata[i].value.py = "number"
         /\ 10 <= x.metadata[i].value.n
         /\ x.metadata[i].value.n < 20

\* C2 (as stated): whatever Analysis was saved to a file, loading that file
\* succeeds and returns an Analysis equal to the saved one.
C2_AnyAnalysisRoundTrips ==
    Returned => last.status = "ok" /\ AnalysisEq(last.analysis, last.source)

\* C2 (amended): when the saved Analysis has plain metadata, and the load
\* parsed the file or used the cache entry made from this very write, the
\* load succeeds and returns an Analysis equal to the saved one, for the
\* plain JSON path and for the .zip path.
C2_RoundTrip ==
    (Returned /\ PlainMetadata(last.source) /\ last.fresh)
        => last.status = "ok" /\ AnalysisEq(last.analysis, last.source)

\* a .zip file holding three kinds of results and non-ASCII source has been
\* loaded from disk and the result equals what was saved
C2_Witness ==
    /\ Returned /\ ~last.cached /\ last.status = "ok"
    /\ last.path.suffix = ".zip"
    /\ last.source = SampleAnalysis(<< << "reformatted" >>, << "failed", "failed_log" >> >>,
                                  Metadata("lists"))
    /\ AnalysisEq(last.analysis, last.source)

\* the number a file gives as its data-format, under either spelling
FormatNumbers(x) ==
    { x.metadata[i].value.n : i \in { j \in 1..Len(x.metadata) :
          /\ x.metadata[j].key \in { DATA_FORMAT_KEY, << "data", "_", "format" >> }
          /\ x.metadata[j].value.py = "number" } }

\* C6: a load that reads an analysis (a JSON file, or the one member of an
\* archive) whose data-format is a number outside 1 <= data-format < 2
\* raises "unsupported analysis format" and yields no Analysis; with a
\* number inside the range the load succeeds.
C6_UnsupportedFormat ==
    (Returned /\ ~last.cached /\ Len(fs[last.path].members) = 1) =>
        \A d \in FormatNumbers(last.source) :
            IF 10 <= d /\ d < 20
            THEN last.status = "ok"
            ELSE /\ last.status = "ValueError: unsupported analysis format"
                 /\ last.analysis = NoAnalysis

\* a file with data-format 2.0 has been refused
C6_Witness ==
    /\ Returned
    /\ FormatNumbers(last.source) = {20}
    /\ last.status = "ValueError: unsupported analysis format"

(***************************************************************************)
(* Claims about the cache.  Every step other than Load clears `last`, so   *)
(* while `last` holds a call the state is the one that call left behind.   *)
(***************************************************************************)
\* C3: a load is answered from the cache exactly when the cache held an
\* intact entry written by an earlier load that saw the same resolved path,
\* st_mtime, st_size and version; the Analysis of the hit is the one that
\* earlier load returned; and the first load after the file's st_mtime has
\* changed is a miss.
C3_HitIffSeenBefore ==
    Returned =>
        /\ last.cached <=> last.prior
        /\ last.cached => last.status = "ok" /\ last.analysis = last.prior_returned
        /\ last.touched => ~last.cached

\* a hit on a file that was loaded, touched and loaded again before: the
\* entry made before the touch is still in the cache
C3_Witness ==
    /\ Returned /\ last.cached
    /\ \E e \in cache :
         /\ e.by_load
         /\ e.seen.path = last.path
         /\ e.seen.mtime # fs[last.path].mtime

C5_CorruptEntry ==
    (Returned /\ last.found = "corrupt") =>
        /\ last.status = "ok"
        /\ ~last.cached
        /\ AnalysisEq(last.analysis, fs[last.path].source)
        /\ \A e \in cache : e.key = calculate_cache_key(last.path) => e.pickle.intact

\* a load has met an unreadable entry and returned the parsed file
C5_Witness ==
    /\ Returned /\ last.found = "corrupt"
    /\ ~last.cached /\ last.status = "ok"

(***************************************************************************)
(* Claims about the compare command                                        *)
(***************************************************************************)
\* the names compare looks at: all of both analyses, or the project key
Considered ==
    IF cargs.project_key = None
    THEN DictKeySet(analysis_one.projects) \cup DictKeySet(analysis_two.projects)
    ELSE {cargs.project_key}

\* present in both analyses with equal Project values
Eligible(n) ==
    /\ DictHas(analysis_one.projects, n)
    /\ DictHas(analysis_two.projects, n)
    /\ DictGet(analysis_one.projects, n) = DictGet(analysis_two.projects, n)

EligibleNames == sorted({ n \in Considered : Eligible(n) })

\* the result pairs of the eligible projects, taken from the two analyses
EligiblePairs ==
    [i \in 1..Len(EligibleNames) |->
       << DictGet(analysis_one.results, EligibleNames[i]),
          DictGet(analysis_two.results, EligibleNames[i]) >>]

Printed(kind, text) == \E i \in 1..Len(console) : console[i].kind = kind /\ console[i].text = text

Warned(n) == \E i \in 1..Len(console) : console[i].kind = "warning" /\ console[i].about = n

AllPairsEqual(pairs) == \A i \in 1..Len(pairs) : DictEq(pairs[i][1], pairs[i][2])

ComparedPairs ==
    [i \in 1..Len(shared_projects) |-> << shared_projects[i][2], shared_projects[i][3] >>]

SomeLookupFails ==
    \E i \in 1..Len(ComparedPairs) : LookupFails(ComparedPairs[i][1], ComparedPairs[i][2])

OverallCalled == call_args.fn = "get_overall_result" /\ FALSE \in DOMAIN call_out

\* C21: get_overall_result applied to an empty collection of file results
\* fails its assertion in both modules and returns no result type, in
\* particular never "nothing-changed"; applied to a non-empty collection of
\* results of the three known types it returns a result type.
C21_EmptyRollup ==
    OverallCalled =>
      IF Len(call_args.results) = 0
      THEN /\ call_out[FALSE].results_py = "AssertionError"
           /\ call_out[FALSE].analysis_py = "AssertionError"
      ELSE /\ call_out[FALSE].results_py \in {"nothing-changed", "reformatted", "failed"}
           /\ call_out[FALSE].analysis_py = call_out[FALSE].results_py

C21_Witness ==
    /\ OverallCalled
    /\ Len(call_args.results) = 0
    /\ call_out[FALSE].analysis_py = "AssertionError"

PostInitCalled == call_args.fn = "ReformattedResult" /\ FALSE \in DOMAIN call_out

\* the lines of a text, a last line without a newline included
LinesOf(t) == IF t = << >> THEN 1 ELSE Len(splitlines(t))

\* C22: the derived line_count of a file result is 1 when its src is empty
\* and otherwise the number of lines of src, a last line without a trailing
\* newline counted too; the line count of a ProjectResults is the sum of its
\* entries' line counts.
C22_LineCount ==
    PostInitCalled =>
      /\ call_out[FALSE].reformatted.line_count = LinesOf(call_args.src)
      /\ call_out[FALSE].nothing_changed.line_count = LinesOf(call_args.dst)
      /\ call_out[FALSE].line_count = LinesOf(call_args.src) + LinesOf(call_args.dst)

\* what the code does keep: the count is the number of newline characters,
\* at least 1, and the project's count is the sum
NewlinesOf(t) ==
    LET count == Cardinality({i \in 1..Len(t) : t[i] = NL}) IN
    IF count > 1 THEN count ELSE 1

C22_NewlineCount ==
    PostInitCalled =>
      /\ call_out[FALSE].reformatted.line_count = NewlinesOf(call_args.src)
      /\ call_out[FALSE].nothing_changed.line_count = NewlinesOf(call_args.dst)
      /\ call_out[FALSE].line_count = NewlinesOf(call_args.src) + NewlinesOf(call_args.dst)

\* the lines of difflib's output after the two file header lines and the
\* hunk header that begin with the marker c
HunkLines(src, dst, c) ==
    LET ls == difflib_unified_diff(splitlines_keepends(src), splitlines_keepends(dst),
                                   "a", "b") IN
    Cardinality({i \in 4..Len(ls) : ls[i][1] = c})

\* C23: the line_changes of ReformattedResult(src, dst) are the number of
\* added and the number of removed lines in the hunks of
\* unified_diff(src, dst), whatever the lines' own text begins with; the two
\* file header lines are not counted.
C23_LineChanges ==
    PostInitCalled =>
      call_out[FALSE].reformatted.line_changes =
        PyTuple(<< HunkLines(call_args.src, call_args.dst, "+"),
                   HunkLines(call_args.src, call_args.dst, "-") >>)

\* a line of src or dst that begins with two of the diff's own markers
MarkerLine(t, c) ==
    \E i \in 1..Len(splitlines(t)) :
      LET line == splitlines(t)[i] IN Len(line) >= 2 /\ line[1] = c /\ line[2] = c

C23_LineChangesPlainText ==
    (call_args.fn = "ReformattedResult"
     /\ (MarkerLine(call_args.src, "-") \/ MarkerLine(call_args.dst, "+")))
    \/ C23_LineChanges

(***************************************************************************)
(* Claims about the files and the projects that are analyzed               *)
(***************************************************************************)
FilesAndModeCalled ==
    call_args.fn = "get_project_files_and_mode" /\ FALSE \in DOMAIN call_out

\* the list is sorted and holds exactly the discovered .py and .pyi files
SortedSourceFiles(files, discovered) ==
    /\ \A i \in 1..Len(files) - 1 : files[i].path < files[i + 1].path
    /\ {files[i] : i \in 1..Len(files)}
         = {f \in {discovered[i] : i \in 1..Len(discovered)} : f.suffix \in {".py", ".pyi"}}

\* C24: get_project_files_and_mode either fails its assertion or returns a
\* non-empty sorted list of the discovered .py and .pyi files together with
\* a mode; it never returns an empty list, also when the formatter
\* discovers only files with other extensions.
C24_NonEmptyFiles ==
    FilesAndModeCalled =>
      \/ call_out[FALSE].raised = "AssertionError"
      \/ /\ call_out[FALSE].raised = None
         /\ call_out[FALSE].mode = "FileMode"
         /\ Len(call_out[FALSE].files) > 0
         /\ SortedSourceFiles(call_out[FALSE].files, join(call_args.shim_calls))

\* without the claim that the list is non-empty
C24_SortedFilesOrAssertion ==
    FilesAndModeCalled =>
      \/ /\ call_out[FALSE].raised = "AssertionError"
         /\ join(call_args.shim_calls) = << >>
      \/ /\ call_out[FALSE].raised = None
         /\ call_out[FALSE].mode = "FileMode"
         /\ SortedSourceFiles(call_out[FALSE].files, join(call_args.shim_calls))

FilterCalled == call_args.fn = "analyze" /\ FALSE \in DOMAIN call_out

\* the candidates that are not excluded, are selected when a selection is
\* given, and do not require a Python newer than the runtime's
WantedProjects ==
    SelectSeq(call_args.projects,
              LAMBDA p : /\ p.name \notin call_args.exclude
                         /\ call_args.select # {} => p.name \in call_args.select
                         /\ p.python_requires # PyStr(">=5.0.0"))

\* C25: the list analyze hands to setup_projects holds exactly the
\* candidates that are not excluded, that are selected when a selection is
\* given, and that the runtime supports, in their order - for every list of
\* candidates, several unsupported projects in a row included.
C25_FilteredProjects == FilterCalled => call_out[FALSE] = WantedProjects

\* two unsupported projects next to each other once the excluded and the
\* unselected ones are gone
UnsupportedInARow ==
    LET kept == SelectSeq(call_args.projects,
                          LAMBDA p : /\ p.name \notin call_args.exclude
                                     /\ call_args.select # {} => p.name \in call_args.select)
    IN \E i \in 1..Len(kept) - 1 :
         /\ kept[i].python_requires = PyStr(">=5.0.0")
         /\ kept[i + 1].python_requires = PyStr(">=5.0.0")

C25_FilteredProjectsApart ==
    (call_args.fn = "analyze" /\ UnsupportedInARow) \/ C25_FilteredProjects

(***************************************************************************)
(* Claims about compare on results that differ                             *)
(***************************************************************************)
\* C26: for every compared pair, make_comparison_summary and
\* compare_project_pair complete without error, and a pair that is counted
\* as differing has at least one file counted as differing and, with
\* --diff, rendered - also when the two ProjectResults of the pair do not
\* have the same file paths.
C26_DifferingPairs ==
    (cpc = "done" /\ analysis_two # NoAnalysis) =>
      /\ cerror = None
      /\ \A n \in 1..Len(console) :
            console[n].kind = "summary" => console[n].text[2] >= console[n].text[1]
      /\ \A i \in 1..Len(shared_projects) :
            (cargs.format = "diff"
             /\ ~DictEq(shared_projects[i][2], shared_projects[i][3]))
            => \E n \in 1..Len(console) :
                 console[n].kind = "diff" /\ console[n].about = shared_projects[i][1].name

\* the two ProjectResults of every compared pair have the same file paths
SameFilePaths ==
    \A i \in 1..Len(shared_projects) :
      DictKeySet(shared_projects[i][2]) = DictKeySet(shared_projects[i][3])

C26_DifferingPairsSameFiles ==
    (cpc \in {"summary", "report", "done"} /\ ~SameFilePaths) \/ C26_DifferingPairs

\* C27: diff_two_results(r1, r2, file, diff_failure=True), as compare --diff
\* calls it, gives a non-empty diff whenever r1 != r2 - also for two failed
\* results that differ only in src or in log and for two reformatted results
\* that differ only in src.
C27_UnequalResultsDiff ==
    (call_args.fn = "diff_two_results" /\ call_args.diff_failure
     /\ call_args.r1 # call_args.r2)
    => \A swapped \in DOMAIN call_out : call_out[swapped].diff # << >>

\* the two results differ in their type, or in the field their type shows:
\* error or message of a failed result, dst of a reformatted one
DisplayedFieldsDiffer ==
    \/ call_args.r1.type # call_args.r2.type
    \/ /\ call_args.r1.type = "failed"
       /\ << call_args.r1.error, call_args.r1.message >>
            # << call_args.r2.error, call_args.r2.message >>
    \/ /\ call_args.r1.type = "reformatted"
       /\ call_args.r1.dst # call_args.r2.dst
    \/ /\ call_args.r1.type = "nothing-changed"
       /\ call_args.r1.src # call_args.r2.src

C27_SameDisplayEmptyDiff ==
    (call_args.fn = "diff_two_results" /\ call_args.diff_failure
     /\ call_args.r1.type = call_args.r2.type)
    => \A swapped \in DOMAIN call_out :
         (call_out[swapped].diff # << >>) <=> DisplayedFieldsDiffer

\* C28: compare prints "Nothing-changed." only when at least one project
\* was compared and every compared pair was found equal; when every
\* considered project is skipped it does not print "Nothing-changed." and
\* exit with status 0.
C28_NothingChangedCompared ==
    (cpc = "done" /\ Printed("print", << "Nothing-changed." >>)) =>
      /\ Len(shared_projects) >= 1
      /\ AllPairsEqual(ComparedPairs)

C28_NothingChangedAllEqual ==
    (cpc = "done" /\ Printed("print", << "Nothing-changed." >>)) =>
      /\ AllPairsEqual(ComparedPairs)
      /\ cexit = 0

(***************************************************************************)
(* Claims about the cache directory                                        *)
(***************************************************************************)
\* C29: a load_analysis that fails - unsupported data-format, an archive
\* with more than one member, content that does not parse, a missing file -
\* leaves the cache directory as it was: it writes no entry and evicts none;
\* the one change it may make is to delete an entry for the key it looked up
\* that could not be unpickled.
C29_FailedLoadFrame ==
    [][(last'.op = "load" /\ last'.status # "ok") =>
          /\ cache' \subseteq cache
          /\ \A e \in cache \ cache' :
                ~e.pickle.intact /\ e.key = calculate_cache_key(last'.path)]_vars

\* a load failed where a successful one would have evicted: the cache
\* directory holds CACHE_MAX_ENTRIES entries
C29_Witness ==
    /\ last.op = "load"
    /\ last.status \notin {"ok", "FileNotFoundError"}
    /\ Cardinality(cache) >= CACHE_MAX_ENTRIES

\* C30: when two processes run load_analysis at once on one cache
\* directory, in every interleaving each call returns, a hit or a miss: no
\* call fails because of what the other evicts or deletes.
C30_ConcurrentLoads ==
    \A p \in DOMAIN procs :
      /\ procs[p].pc # "raised"
      /\ procs[p].result \in {None, "hit", "miss"}

\* the calls that fail are the ones that meet an entry the other process
\* has unlinked: no other error ends a call
C30_OnlyMissingEntries ==
    \A p \in DOMAIN procs :
      procs[p].pc = "raised" =>
        /\ procs[p].result = "FileNotFoundError"
        /\ \E q \in DOMAIN procs \ {p} : procs[q].pc \notin {"exists", "read", "stat"}

====
